---- MODULE Spec2Model ----
(***************************************************************************)
(* Page-transform engine of pdf-tools (utils/pdf_operations.py) and the    *)
(* endpoints placed in front of it (routes/pdf_api.py).                    *)
(*                                                                         *)
(* A file on disk is a record                                              *)
(*   [name, exists, ext_pdf, fitz_ok, pypdf_ok, pages]                     *)
(* where pages is the ordered sequence of the document's pages and a page  *)
(* is the pair <<name of the document it comes from, 1-based position>>.   *)
(* A returned dict is a record; an f-string error message is the record of *)
(* its template (msg) and of the values interpolated into it.              *)
(***************************************************************************)
EXTENDS Integers, Sequences, FiniteSets, TLC

\* ------------------------------------------------------------- bounds
MaxPages == 3
MaxLen == 3
MaxRanges == 2
MaxFiles == 3
MaxBytes == 3
MaxQualityOver == 12
MaxPw == 2
MaxDim == 13
MaxStrip == 4
MaxImages == 11
MaxChain == 3

\* ------------------------------------------------------------- program constants
\* if len(image_bytes) < 10000: continue
MinImageBytes == 10000
\* compress_with_pil(input_path, output_path, 60) for an unknown method
FallbackQuality == 60
\* clean = max(0, min(int((100 - quality) / 10), 9))
MaxClean == 9
\* if img_size > 500000
LargeImageBytes == 500000
\* non_white_pixels = np.where(np_image < 200)
InkThreshold == 200
\* padding = 5
Padding == 5

VARIABLES pc, call, result, written, response, invoked

vars == <<pc, call, result, written, response, invoked>>

\* ------------------------------------------------------------- helpers
Range(s) == {s[i] : i \in 1..Len(s)}

SeqsUpTo(S, n) == UNION {[1..k -> S] : k \in 0..n}

NoResult == [success |-> FALSE, error |-> [msg |-> "none"]]

Failure(e) == [success |-> FALSE, error |-> e]

\* no HTTP response: the operation was called directly
NoResponse == [status |-> 0, body |-> [error |-> [msg |-> "none"]]]

\* jsonify(body), status
Respond(status, body) == [status |-> status, body |-> body]

\* an exception that leaves the view function: Flask answers 500 with no JSON body
Uncaught(exc) == [status |-> 500, body |-> [uncaught |-> exc]]

\* open(output_path, 'wb'); writer.write(output_file)
WriteFile(filename, pages) == [filename |-> filename, pages |-> pages]

\* ------------------------------------------------------------- files
PagesOf(name, n) == [i \in 1..n |-> <<name, i>>]

Pdf(name, n) ==
    [name |-> name, exists |-> TRUE, ext_pdf |-> TRUE, fitz_ok |-> TRUE,
     pypdf_ok |-> TRUE, pages |-> PagesOf(name, n)]

\* no file at the path
MissingFile(name) == [Pdf(name, 0) EXCEPT !.exists = FALSE]

\* a well-formed document whose file name does not end with .pdf
WrongExtFile(name) == [Pdf(name, 1) EXCEPT !.ext_pdf = FALSE]

\* bytes that no parser accepts
CorruptFile(name) ==
    [Pdf(name, 0) EXCEPT !.fitz_ok = FALSE, !.pypdf_ok = FALSE]

\* a file the lenient parser (PyMuPDF) opens and the strict one (PyPDF2) rejects
LenientOnlyFile(name) == [Pdf(name, 1) EXCEPT !.pypdf_ok = FALSE]

Files(name) ==
    {Pdf(name, n) : n \in 0..MaxPages}
        \cup {MissingFile(name), WrongExtFile(name), CorruptFile(name),
              LenientOnlyFile(name)}

\* validate_pdf(filepath) -> (is_valid, error_message)
validate_pdf(f) ==
    IF ~f.exists THEN <<FALSE, [msg |-> "File does not exist"]>>
    ELSE IF ~f.ext_pdf THEN <<FALSE, [msg |-> "File is not a PDF"]>>
    ELSE IF ~f.fitz_ok THEN <<FALSE, [msg |-> "Failed to validate PDF"]>>
    ELSE IF Len(f.pages) = 0 THEN <<FALSE, [msg |-> "PDF contains no pages"]>>
    ELSE IF ~f.pypdf_ok THEN <<FALSE, [msg |-> "Invalid PDF structure"]>>
    ELSE <<TRUE, [msg |-> ""]>>

\* ------------------------------------------------------------- Delete
\* for page in pages_to_remove: if page < 1 or page > total_pages: return ...
RECURSIVE FirstOutOfRangePage(_, _, _)
FirstOutOfRangePage(pages_to_remove, total_pages, k) ==
    IF k > Len(pages_to_remove) THEN 0
    ELSE IF pages_to_remove[k] < 1 \/ pages_to_remove[k] > total_pages THEN k
    ELSE FirstOutOfRangePage(pages_to_remove, total_pages, k + 1)

\* variant: the 1-based numbers are used as 0-based indices
pages_to_remove_zero_based_mut(pages_to_remove) == pages_to_remove

\* [p - 1 for p in pages_to_remove]
pages_to_remove_zero_based(pages_to_remove) ==
    [k \in 1..Len(pages_to_remove) |-> pages_to_remove[k] - 1]

\* for i in range(total_pages): if i not in zero_based: writer.add_page(reader.pages[i])
RECURSIVE KeptPages(_, _, _)
KeptPages(pages, zero_based, i) ==
    IF i >= Len(pages) THEN <<>>
    ELSE (IF i \in Range(zero_based) THEN <<>> ELSE <<pages[i + 1]>>)
             \o KeptPages(pages, zero_based, i + 1)

\* remove_pdf_pages(input_path, pages_to_remove, output_path):
\* the returned dict and the files written
remove_pdf_pages(f, pages_to_remove) ==
    IF Len(pages_to_remove) = 0
    THEN [result |-> Failure([msg |-> "No pages specified to remove"]),
          written |-> <<>>]
    ELSE IF ~f.exists
    THEN [result |-> Failure([msg |-> "Input file does not exist"]),
          written |-> <<>>]
    ELSE IF ~f.pypdf_ok
    THEN [result |-> Failure([msg |-> "Failed to remove pages"]),
          written |-> <<>>]
    ELSE LET total_pages == Len(f.pages)
             bad == FirstOutOfRangePage(pages_to_remove, total_pages, 1)
         IN IF bad # 0
            THEN [result |-> Failure([msg |-> "Page is out of range",
                                      pages |-> <<pages_to_remove[bad]>>,
                                      total_pages |-> total_pages]),
                  written |-> <<>>]
            ELSE [result |-> [success |-> TRUE,
                              pages_removed |-> pages_to_remove,
                              total_pages |-> total_pages,
                              new_page_count |-> total_pages - Len(pages_to_remove)],
                  written |-> <<WriteFile("output",
                                  KeptPages(f.pages,
                                      pages_to_remove_zero_based(pages_to_remove), 0))>>]

\* ------------------------------------------------------------- Insert
\* variant: appending after the last page is refused
InvalidPosition_mut(position, base_page_count) ==
    position < 0 \/ position >= base_page_count

\* if position < 0 or position > base_page_count
InvalidPosition(position, base_page_count) ==
    position < 0 \/ position > base_page_count

\* variant: the inserted pages go after all the base pages
InsertedPages_mut(base, ins, position) ==
    [k \in 1..position |-> base[k]]
        \o [k \in 1..(Len(base) - position) |-> base[position + k]]
        \o ins

\* for i in range(position): add base[i]; for i in range(insert_page_count):
\* add insert[i]; for i in range(position, base_page_count): add base[i]
InsertedPages(base, ins, position) ==
    [k \in 1..position |-> base[k]]
        \o [k \in 1..Len(ins) |-> ins[k]]
        \o [k \in 1..(Len(base) - position) |-> base[position + k]]

\* insert_pdf_at_position(base_pdf_path, insert_pdf_path, position, output_path),
\* position 0-based
insert_pdf_at_position(base, ins, position) ==
    IF ~validate_pdf(base)[1]
    THEN [result |-> Failure([msg |-> "Base PDF is invalid", why |-> validate_pdf(base)[2]]),
          written |-> <<>>]
    ELSE IF ~validate_pdf(ins)[1]
    THEN [result |-> Failure([msg |-> "Insert PDF is invalid", why |-> validate_pdf(ins)[2]]),
          written |-> <<>>]
    ELSE LET base_page_count == Len(base.pages)
             insert_page_count == Len(ins.pages)
         IN IF InvalidPosition(position, base_page_count)
            THEN [result |-> Failure([msg |-> "Invalid position",
                                      position |-> position + 1,
                                      base_page_count |-> base_page_count]),
                  written |-> <<>>]
            ELSE [result |-> [success |-> TRUE,
                              base_page_count |-> base_page_count,
                              insert_page_count |-> insert_page_count,
                              insertion_position |-> position + 1,
                              new_page_count |-> base_page_count + insert_page_count],
                  written |-> <<WriteFile("output",
                                  InsertedPages(base.pages, ins.pages, position))>>]

\* ------------------------------------------------------------- Split
\* variant: a range with start > end is not skipped
RangeSkipped_mut(start, end, total_pages) ==
    start < 1 \/ end > total_pages

\* if start < 1 or end > total_pages or start > end: continue
RangeSkipped(start, end, total_pages) ==
    start < 1 \/ end > total_pages \/ start > end

\* variant: the name does not hold the position of the range in the request
SplitFilename_mut(i, start, end) == [index |-> 1, start |-> start, end |-> end]

\* f"split_{i + 1}_pages_{start}-{end}.pdf"
SplitFilename(i, start, end) == [index |-> i + 1, start |-> start, end |-> end]

\* variant: the default ranges are 0-based
DefaultRanges_mut(total_pages) == [k \in 1..total_pages |-> <<k - 1, k - 1>>]

\* [(i + 1, i + 1) for i in range(total_pages)]
DefaultRanges(total_pages) == [k \in 1..total_pages |-> <<k, k>>]

\* for i, (start, end) in enumerate(page_ranges): the files written, in order
RECURSIVE SplitWrites(_, _, _)
SplitWrites(pages, page_ranges, i) ==
    IF i >= Len(page_ranges) THEN <<>>
    ELSE LET start == page_ranges[i + 1][1]
             end == page_ranges[i + 1][2]
         IN (IF RangeSkipped(start, end, Len(pages)) THEN <<>>
             ELSE <<WriteFile(SplitFilename(i, start, end),
                              [k \in 1..(end - (start - 1)) |-> pages[start - 1 + k]])>>)
                \o SplitWrites(pages, page_ranges, i + 1)

\* output_files.append({'filename', 'page_range': [start, end], 'page_count': end - start + 1})
OutputFileInfo(w) ==
    [filename |-> w.filename,
     page_range |-> <<w.filename.start, w.filename.end>>,
     page_count |-> w.filename.end - w.filename.start + 1]

\* split_pdf(input_path, output_dir, page_ranges), page_ranges <<>> when None or []
split_pdf(f, page_ranges) ==
    IF ~validate_pdf(f)[1]
    THEN [result |-> Failure([msg |-> "Invalid PDF file", why |-> validate_pdf(f)[2]]),
          written |-> <<>>]
    ELSE LET total_pages == Len(f.pages)
             ranges == IF Len(page_ranges) = 0 THEN DefaultRanges(total_pages)
                       ELSE page_ranges
             writes == SplitWrites(f.pages, ranges, 0)
         IN [result |-> [success |-> TRUE,
                         total_pages |-> total_pages,
                         split_count |-> Len(writes),
                         output_files |-> [k \in 1..Len(writes) |-> OutputFileInfo(writes[k])]],
             written |-> writes]

\* ------------------------------------------------------------- Merge
\* os.path.basename(path) of the k-th input
FileNames == <<"f1", "f2", "f3", "f4", "f5", "f6">>

\* variant: only the first input is validated
FirstInvalidInput_mut(input_paths, k) ==
    IF Len(input_paths) >= 1 /\ ~validate_pdf(input_paths[1])[1] THEN 1 ELSE 0

\* the lists of n input paths, the k-th file named FileNames[k]
RECURSIVE InputPaths(_)
InputPaths(n) ==
    IF n = 0 THEN {<<>>}
    ELSE {Append(s, f) : s \in InputPaths(n - 1), f \in Files(FileNames[n])}

\* for path in input_paths: is_valid, error = validate_pdf(path); if not is_valid: return
RECURSIVE FirstInvalidInput(_, _)
FirstInvalidInput(input_paths, k) ==
    IF k > Len(input_paths) THEN 0
    ELSE IF ~validate_pdf(input_paths[k])[1] THEN k
    ELSE FirstInvalidInput(input_paths, k + 1)

\* variant: the documents are concatenated in reverse order
RECURSIVE MergedPages_mut(_, _)
MergedPages_mut(input_paths, k) ==
    IF k > Len(input_paths) THEN <<>>
    ELSE MergedPages_mut(input_paths, k + 1) \o input_paths[k].pages

\* for path in input_paths: for page in reader.pages: writer.add_page(page)
RECURSIVE MergedPages(_, _)
MergedPages(input_paths, k) ==
    IF k > Len(input_paths) THEN <<>>
    ELSE input_paths[k].pages \o MergedPages(input_paths, k + 1)

\* total_pages += page_count
RECURSIVE TotalPages(_, _)
TotalPages(input_paths, k) ==
    IF k > Len(input_paths) THEN 0
    ELSE Len(input_paths[k].pages) + TotalPages(input_paths, k + 1)

\* merge_pdfs(input_paths, output_path)
merge_pdfs(input_paths) ==
    IF Len(input_paths) < 2
    THEN [result |-> Failure([msg |-> "At least two PDF files are required for merging"]),
          written |-> <<>>]
    ELSE LET bad == FirstInvalidInput(input_paths, 1)
         IN IF bad # 0
            THEN [result |-> Failure([msg |-> "Invalid PDF file",
                                      filename |-> input_paths[bad].name,
                                      why |-> validate_pdf(input_paths[bad])[2]]),
                  written |-> <<>>]
            ELSE [result |-> [success |-> TRUE,
                              total_pages |-> TotalPages(input_paths, 1),
                              merged_files |-> Len(input_paths),
                              file_info |-> [k \in 1..Len(input_paths) |->
                                               [filename |-> input_paths[k].name,
                                                page_count |-> Len(input_paths[k].pages)]]],
                  written |-> <<WriteFile("output", MergedPages(input_paths, 1))>>]

\* ------------------------------------------------------------- Reorder
\* variant: the order is taken as 1-based at its lower end
IndexOutOfRange_mut(page_idx, total_pages) ==
    page_idx < 1 \/ page_idx >= total_pages

\* if page_idx < 0 or page_idx >= total_pages
IndexOutOfRange(page_idx, total_pages) ==
    page_idx < 0 \/ page_idx >= total_pages

\* for page_idx in new_order: if out of range: return
RECURSIVE FirstOutOfRangeIndex(_, _, _)
FirstOutOfRangeIndex(new_order, total_pages, k) ==
    IF k > Len(new_order) THEN 0
    ELSE IF IndexOutOfRange(new_order[k], total_pages) THEN k
    ELSE FirstOutOfRangeIndex(new_order, total_pages, k + 1)

\* variant: the order is read back to front
ReorderedPages_mut(pages, new_order) ==
    [k \in 1..Len(new_order) |-> pages[new_order[Len(new_order) + 1 - k] + 1]]

\* for page_idx in new_order: writer.add_page(reader.pages[page_idx])
ReorderedPages(pages, new_order) ==
    [k \in 1..Len(new_order) |-> pages[new_order[k] + 1]]

\* reorder_pages(input_path, output_path, new_order), new_order 0-based
reorder_pages(f, new_order) ==
    IF ~validate_pdf(f)[1]
    THEN [result |-> Failure([msg |-> "Invalid PDF file", why |-> validate_pdf(f)[2]]),
          written |-> <<>>]
    ELSE IF Len(new_order) = 0
    THEN [result |-> Failure([msg |-> "No page order specified"]), written |-> <<>>]
    ELSE LET total_pages == Len(f.pages)
             bad == FirstOutOfRangeIndex(new_order, total_pages, 1)
         IN IF bad # 0
            THEN [result |-> Failure([msg |-> "Page index is out of range",
                                      page_idx |-> new_order[bad],
                                      total_pages |-> total_pages]),
                  written |-> <<>>]
            ELSE [result |-> [success |-> TRUE,
                              original_pages |-> total_pages,
                              reordered_pages |-> Len(new_order),
                              new_order |-> new_order],
                  written |-> <<WriteFile("output", ReorderedPages(f.pages, new_order))>>]

\* ------------------------------------------------------------- Compress
\* quality_level is an int, a str or None
QInt(v) == [kind |-> "int", val |-> v, name |-> ""]
QStr(n) == [kind |-> "str", val |-> 0, name |-> n]
QNone == [kind |-> "none", val |-> 0, name |-> ""]

\* the bytes of an embedded image: as found in the input, or re-encoded
Original == [enc |-> "original", quality |-> 0]
Jpeg(quality) == [enc |-> "jpeg", quality |-> quality]

\* base_image = pdf_document.extract_image(xref); img = Image.open(...)
EmbeddedImage(xref, bytes, mode) ==
    [xref |-> xref, bytes |-> bytes, mode |-> mode, data |-> Original]

ImageKinds(xref) ==
    {EmbeddedImage(xref, b, m) :
        b \in {MinImageBytes - 1, MinImageBytes, MinImageBytes + 1},
        m \in {"RGB", "RGBA"}}

\* page.get_images(full=True) of one page: no image or one
PageImages(k) == {<<>>} \cup {<<img>> : img \in ImageKinds(<<k, 1>>)}

\* the documents of n pages, with their images and os.path.getsize
RECURSIVE ImageLists(_)
ImageLists(n) ==
    IF n = 0 THEN {<<>>}
    ELSE {Append(s, imgs) : s \in ImageLists(n - 1), imgs \in PageImages(n)}

ImageDoc(images, size) ==
    Pdf("in", Len(images)) @@ [images |-> images, size |-> size]

\* no exception
NoExc == [type |-> "none"]

\* the temporary JPEG files compress_with_pil saves: one per image of 10000
\* bytes or more, img_{page_num}_{img_index}.jpg; an image whose save raises is
\* skipped by the inner except
RECURSIVE TempJpegs(_, _, _)
TempJpegs(images, quality, k) ==
    IF k > Len(images) THEN <<>>
    ELSE LET keep == SelectSeq(images[k],
                         LAMBDA img : img.bytes >= MinImageBytes /\ quality.kind = "int")
         IN [j \in 1..Len(keep) |->
                [tool |-> "PIL.save", xref |-> keep[j].xref,
                 mode |-> IF keep[j].mode = "RGBA" THEN "RGB" ELSE keep[j].mode,
                 data |-> Jpeg(quality.val)]]
               \o TempJpegs(images, quality, k + 1)

\* new_page.show_pdf_page(page.rect, pdf_document, page_num): the new page shows the
\* source page, images included; nothing replaces an image afterwards
SavedImages(images, quality) == images

\* compress_with_pil(input_path, output_path, quality)
compress_with_pil(f, quality) ==
    IF ~f.exists \/ ~f.fitz_ok
    THEN [raised |-> TRUE, exc |-> [type |-> "FileDataError"], written |-> <<>>,
          invoked |-> <<>>]
    ELSE IF Len(f.pages) = 0
    THEN [raised |-> TRUE, exc |-> [type |-> "ValueError: cannot save with zero pages"],
          written |-> <<>>, invoked |-> TempJpegs(f.images, quality, 1)]
    ELSE [raised |-> FALSE, exc |-> NoExc,
          written |-> <<WriteFile("output", f.pages)
                          @@ [images |-> SavedImages(f.images, quality)]>>,
          invoked |-> TempJpegs(f.images, quality, 1)]

\* int(x / 10) for an int x: true division, then truncation toward zero
IntDiv10(x) == IF x >= 0 THEN x \div 10 ELSE -((-x) \div 10)

\* round(x / 10) for an int x: to the nearest integer, a tie to the even one
Round10(x) ==
    LET d == x \div 10
        r == x % 10
    IN IF r < 5 THEN d
       ELSE IF r > 5 THEN d + 1
       ELSE IF d % 2 = 0 THEN d ELSE d + 1

Max(a, b) == IF a >= b THEN a ELSE b
Min(a, b) == IF a <= b THEN a ELSE b

\* variant: the quotient is rounded instead of truncated
CleanLevel_mut(quality) == Max(0, Min(Round10(100 - quality), MaxClean))

\* clean = max(0, min(int((100 - quality) / 10), 9))
CleanLevel(quality) == Max(0, Min(IntDiv10(100 - quality), MaxClean))

\* compress_with_pymupdf(input_path, output_path, quality)
compress_with_pymupdf(f, quality) ==
    IF ~f.exists \/ ~f.fitz_ok
    THEN [raised |-> TRUE, exc |-> [type |-> "FileDataError"], written |-> <<>>,
          invoked |-> <<>>]
    ELSE IF quality.kind # "int"
    THEN [raised |-> TRUE, exc |-> [type |-> "TypeError"], written |-> <<>>,
          invoked |-> <<>>]
    ELSE LET save == [tool |-> "fitz.save", garbage |-> 4,
                      clean |-> CleanLevel(quality.val), deflate |-> TRUE]
         IN IF Len(f.pages) = 0
            THEN [raised |-> TRUE,
                  exc |-> [type |-> "ValueError: cannot save with zero pages"],
                  written |-> <<>>, invoked |-> <<save>>]
            ELSE [raised |-> FALSE, exc |-> NoExc,
                  written |-> <<WriteFile("output", f.pages) @@ [images |-> f.images]>>,
                  invoked |-> <<save>>]

\* quality_settings: the preset a quality selects, "ebook" when it is no key
GsPreset(quality) ==
    IF quality.kind = "str" /\ quality.name \in {"screen", "ebook", "printer", "prepress"}
    THEN quality.name
    ELSE "ebook"

\* quality_settings[quality][0]
GsDpi(preset) ==
    CASE preset = "screen" -> 72
      [] preset = "ebook" -> 150
      [] preset = "printer" -> 300
      [] preset = "prepress" -> 300

\* gs_command and the keyword arguments of subprocess.run: no timeout is passed
GsCommand(quality) ==
    [tool |-> "gs", preset |-> GsPreset(quality), dpi |-> GsDpi(GsPreset(quality)),
     check |-> TRUE, capture_output |-> TRUE, timeout |-> "none"]

\* what the gs process does: whether the executable is found, whether it ever
\* exits, its exit status and what it wrote on standard error
GsRun(installed, exits, returncode, stderr) ==
    [installed |-> installed, exits |-> exits, returncode |-> returncode,
     stderr |-> stderr]

GsRuns ==
    {GsRun(FALSE, FALSE, 0, ""), GsRun(TRUE, FALSE, 0, "")}
        \cup {GsRun(TRUE, TRUE, rc, err) : rc \in {0, 1},
                                          err \in {"", "gs: unrecoverable error"}}

\* subprocess.run(gs_command, check=True, capture_output=True): check=True raises
\* CalledProcessError on a nonzero exit status, whose str() is "Command ...
\* returned non-zero exit status N"; the test of process.returncode after it
\* is then never true
GsRaises(gs) ==
    IF ~gs.installed THEN [type |-> "FileNotFoundError"]
    ELSE IF gs.returncode # 0
    THEN [type |-> "CalledProcessError", returncode |-> gs.returncode]
    ELSE NoExc

\* compress_with_ghostscript(input_path, output_path, quality), for a gs process
\* that ends
compress_with_ghostscript(f, quality, gs) ==
    LET exc == GsRaises(gs)
    IN IF exc # NoExc
       THEN [raised |-> TRUE, exc |-> exc, written |-> <<>>,
             invoked |-> <<GsCommand(quality)>>]
       ELSE [raised |-> FALSE, exc |-> NoExc,
             written |-> <<WriteFile("output", f.pages) @@ [images |-> f.images]>>,
             invoked |-> <<GsCommand(quality)>>]

\* round(n / d * 100, 2) in hundredths, for n * 10000 = x: the nearest integer
\* to x / d, a tie to the even one
RoundDiv(x, d) ==
    LET q == x \div d
        r == x % d
    IN IF 2 * r < d THEN q
       ELSE IF 2 * r > d THEN q + 1
       ELSE IF q % 2 = 0 THEN q ELSE q + 1

\* variant: a negative reduction is reported as zero
Reduction_mut(original_size, compressed_size) ==
    Max(0, original_size - compressed_size)

\* reduction = original_size - compressed_size
Reduction(original_size, compressed_size) == original_size - compressed_size

\* round((reduction / original_size) * 100 if original_size > 0 else 0, 2),
\* in hundredths of a percent
ReductionPercentX100(reduction, original_size) ==
    IF original_size > 0 THEN RoundDiv(reduction * 10000, original_size) ELSE 0

\* the strategy compress_pdf dispatches to
Dispatch(f, method, quality_level, env) ==
    IF method = "pil" THEN compress_with_pil(f, quality_level)
    ELSE IF method = "ghostscript" THEN compress_with_ghostscript(f, quality_level, env.gs)
    ELSE IF method = "pymupdf" THEN compress_with_pymupdf(f, quality_level)
    ELSE compress_with_pil(f, QInt(FallbackQuality))

\* compress_pdf(input_path, output_path, method, quality_level); env is what the
\* libraries and the file system answer: the gs process and the size of the output
compress_pdf(f, method, quality_level, env) ==
    IF ~f.exists
    THEN [result |-> Failure([msg |-> "Failed to compress PDF",
                              exc |-> [type |-> "FileNotFoundError"]]),
          written |-> <<>>, invoked |-> <<>>]
    ELSE LET original_size == f.size
             s == Dispatch(f, method, quality_level, env)
         IN IF s.raised
            THEN [result |-> Failure([msg |-> "Failed to compress PDF", exc |-> s.exc]),
                  written |-> s.written, invoked |-> s.invoked]
            ELSE LET compressed_size == env.compressed_size
                     reduction == Reduction(original_size, compressed_size)
                 IN [result |-> [success |-> TRUE,
                                 original_size |-> original_size,
                                 compressed_size |-> compressed_size,
                                 reduction |-> reduction,
                                 reduction_percent_x100 |->
                                     ReductionPercentX100(reduction, original_size),
                                 method_used |-> [method |-> method,
                                                  quality_level |-> quality_level]],
                     written |-> s.written, invoked |-> s.invoked]

\* a function that returns None, and one that raises
ReturnedNone == [returned |-> "None"]
Raised(exc) == [raised |-> exc]

\* the files compress_pdf is given: documents of one page, missing and unreadable
\* files, by size in bytes
CompressFiles ==
    {ImageDoc(images, size) : images \in ImageLists(1), size \in 1..MaxBytes}
        \cup {MissingFile("in") @@ [images |-> <<>>, size |-> 0]}
        \cup {CorruptFile("in") @@ [images |-> <<>>, size |-> size] : size \in 0..MaxBytes}

\* method and quality_level as the callers pass them: method_id.split('_'),
\* the quality an int when it is all digits
Methods == {"pil", "ghostscript", "pymupdf", "zlib"}
QualityLevels == {QInt(30), QInt(85), QStr("screen"), QStr("high"), QNone}

\* what the environment answers to a call of compress_pdf
CompressEnvs(method) ==
    [gs : IF method = "ghostscript" THEN GsRuns ELSE {GsRun(FALSE, FALSE, 0, "")},
     compressed_size : 0..(MaxBytes + 1)]

\* ------------------------------------------------------------- Analysis
\* n images of one size, numbered from k + 1
SameSizeImages(k, n, bytes) == [j \in 1..n |-> EmbeddedImage(<<1, k + j>>, bytes, "RGB")]

\* a document of one page with a images of 100000 bytes, b of 400000, c of
\* 500000 and d of 500001, and page.get_text() of text_len characters
AnalysisDoc(a, b, c, d, text_len) ==
    ImageDoc(<<SameSizeImages(0, a, 100000) \o SameSizeImages(a, b, 400000)
                 \o SameSizeImages(a + b, c, LargeImageBytes)
                 \o SameSizeImages(a + b + c, d, LargeImageBytes + 1)>>, 1)
        @@ [text_len |-> <<text_len>>]

AnalysisFiles ==
    {AnalysisDoc(a, b, c, d, text_len) :
        a \in 0..MaxImages, b \in 0..2, c \in 0..MaxImages, d \in 0..4,
        text_len \in {99}}
        \cup {AnalysisDoc(a, 0, 0, 0, text_len) : a \in 0..1, text_len \in {0, 100}}
        \cup {MissingFile("in") @@ [images |-> <<>>, size |-> 0, text_len |-> <<>>],
              CorruptFile("in") @@ [images |-> <<>>, size |-> 1, text_len |-> <<>>]}

\* extract_pdf_info(filepath); the metadata of the document is left out
extract_pdf_info(f) ==
    IF ~f.exists \/ ~f.fitz_ok
    THEN Failure([msg |-> "Failed to extract PDF information",
                  exc |-> [type |-> IF f.exists THEN "FileDataError"
                                    ELSE "FileNotFoundError"]])
    ELSE [success |-> TRUE,
          file_size |-> f.size,
          page_count |-> Len(f.pages),
          pages_info |-> [i \in 1..Len(f.pages) |->
                            [page_number |-> i,
                             has_images |-> Len(f.images[i]) > 0,
                             has_text |-> f.text_len[i] > 0]]]

\* for page_num in range(pdf.page_count): total_images += len(images)
RECURSIVE TotalImages(_, _)
TotalImages(images, k) ==
    IF k > Len(images) THEN 0
    ELSE Len(images[k]) + TotalImages(images, k + 1)

\* image_sizes.append(img_size), over all pages
RECURSIVE ImageSizes(_, _)
ImageSizes(images, k) ==
    IF k > Len(images) THEN <<>>
    ELSE [j \in 1..Len(images[k]) |-> images[k][j].bytes] \o ImageSizes(images, k + 1)

\* sum(image_sizes)
RECURSIVE Sum(_)
Sum(sizes) == IF Len(sizes) = 0 THEN 0 ELSE Head(sizes) + Sum(Tail(sizes))

\* if img_size > 500000: large_images += 1
LargeImageCount(sizes) == Len(SelectSeq(sizes, LAMBDA b : b > LargeImageBytes))

\* variant: the first test of each level is >=
CompressionPotential_mut(large_images, total_images, sum_image_sizes) ==
    IF large_images >= 3 \/ (total_images > 10 /\ sum_image_sizes > 5000000)
    THEN "High"
    ELSE IF large_images >= 0 \/ (total_images > 5 /\ sum_image_sizes > 2000000)
    THEN "Medium"
    ELSE "Low"

\* compression_potential
CompressionPotential(large_images, total_images, sum_image_sizes) ==
    IF large_images > 3 \/ (total_images > 10 /\ sum_image_sizes > 5000000)
    THEN "High"
    ELSE IF large_images > 0 \/ (total_images > 5 /\ sum_image_sizes > 2000000)
    THEN "Medium"
    ELSE "Low"

\* if len(text.strip()) < 100 and len(images) > 0: has_scanned_content = True
HasScannedContent(f) ==
    \E i \in 1..Len(f.pages) : f.text_len[i] < 100 /\ Len(f.images[i]) > 0

\* analyze_pdf_content(filepath); the fonts of the document are left out
analyze_pdf_content(f) ==
    LET info == extract_pdf_info(f)
    IN IF ~info.success THEN info
       ELSE LET total_images == TotalImages(f.images, 1)
                image_sizes == ImageSizes(f.images, 1)
                large_images == LargeImageCount(image_sizes)
            IN info @@ [total_images |-> total_images,
                        large_images |-> large_images,
                        avg_image_size |-> [sum |-> Sum(image_sizes),
                                            over |-> Max(1, Len(image_sizes))],
                        has_scanned_content |-> HasScannedContent(f),
                        compression_potential |->
                            CompressionPotential(large_images, total_images,
                                                 Sum(image_sizes))]

\* ------------------------------------------------------------- Protect, Unprotect
\* a password argument: a str, or None
Str(chars) == [given |-> TRUE, chars |-> chars]
None == [given |-> FALSE, chars |-> <<>>]

PwChars == {" ", "a", "b"}
Passwords == {Str(chars) : chars \in SeqsUpTo(PwChars, MaxPw)}

\* str.lstrip(), str.rstrip(), str.strip()
RECURSIVE LStrip(_)
LStrip(chars) ==
    IF Len(chars) > 0 /\ chars[1] = " " THEN LStrip(Tail(chars)) ELSE chars

RECURSIVE RStrip(_)
RStrip(chars) ==
    IF Len(chars) > 0 /\ chars[Len(chars)] = " "
    THEN RStrip(SubSeq(chars, 1, Len(chars) - 1))
    ELSE chars

Strip(chars) == RStrip(LStrip(chars))

\* reader.is_encrypted and the passwords of the document
Unencrypted(f) == f @@ [encrypted |-> FALSE, user_pw |-> <<>>, owner_pw |-> <<>>]
Encrypted(f, user_pw, owner_pw) ==
    f @@ [encrypted |-> TRUE, user_pw |-> user_pw, owner_pw |-> owner_pw]

\* the passwords documents are encrypted with
DocPasswords == {<<>>, <<"a">>, <<"b">>, <<"a", " ">>}

PwFiles ==
    {Unencrypted(Pdf("in", n)) : n \in 0..MaxPages}
        \cup {Encrypted(Pdf("in", n), u, o) :
                 n \in 1..2, u \in DocPasswords, o \in DocPasswords}
        \cup {Unencrypted(MissingFile("in")), Unencrypted(CorruptFile("in")),
              Encrypted(CorruptFile("in"), <<"a">>, <<"b">>)}

\* variant: the password is not stripped before the test
BlankPassword_mut(password) == ~password.given \/ Len(password.chars) = 0

\* if not password or len(password.strip()) == 0
BlankPassword(password) ==
    ~password.given \/ Len(password.chars) = 0 \/ Len(Strip(password.chars)) = 0

\* variant: the output is written without encryption
ProtectedOutput_mut(pages, password) == Unencrypted(WriteFile("output", pages))

\* writer.encrypt(password); writer.write(output_file): the owner password
\* defaults to the user password
ProtectedOutput(pages, password) ==
    Encrypted(WriteFile("output", pages), password.chars, password.chars)

\* add_pdf_password(input_path, password, output_path)
add_pdf_password(f, password) ==
    IF BlankPassword(password)
    THEN [result |-> Failure([msg |-> "Password cannot be empty"]), written |-> <<>>]
    ELSE IF ~f.exists
    THEN [result |-> Failure([msg |-> "Input file does not exist"]), written |-> <<>>]
    ELSE IF ~f.pypdf_ok
    THEN [result |-> Failure([msg |-> "Failed to add password",
                              exc |-> [type |-> "PdfReadError"]]),
          written |-> <<>>]
    ELSE IF f.encrypted
    THEN [result |-> Failure([msg |-> "PDF is already password protected. Remove existing password first."]),
          written |-> <<>>]
    ELSE [result |-> [success |-> TRUE,
                      message |-> "Password protection added successfully",
                      protected |-> TRUE],
          written |-> <<ProtectedOutput(f.pages, password)>>]

\* reader.decrypt(password): 0 failed, 1 user password, 2 owner password; which
\* of 1 and 2 the library answers when the password is both depends on its version
DecryptCodes(f, chars) ==
    IF chars = f.user_pw /\ chars = f.owner_pw THEN {1, 2}
    ELSE IF chars = f.user_pw THEN {1}
    ELSE IF chars = f.owner_pw THEN {2}
    ELSE {0}

\* variant: only the user password is taken
Decrypted_mut(decrypt_success) == decrypt_success = 1

\* if decrypt_success in (1, 2)
Decrypted(decrypt_success) == decrypt_success \in {1, 2}

\* remove_pdf_password(input_path, password, output_path), password a str;
\* decrypt_success is what reader.decrypt answers
remove_pdf_password(f, password, decrypt_success) ==
    IF ~f.exists
    THEN [result |-> Failure([msg |-> "Input file does not exist"]), written |-> <<>>]
    ELSE IF ~f.pypdf_ok
    THEN [result |-> Failure([msg |-> "Failed to remove password",
                              exc |-> [type |-> "PdfReadError"]]),
          written |-> <<>>]
    ELSE IF ~f.encrypted
    THEN [result |-> Failure([msg |-> "PDF is not password protected"]), written |-> <<>>]
    ELSE IF Decrypted(decrypt_success)
    THEN [result |-> [success |-> TRUE,
                      message |-> "Password protection removed successfully",
                      protected |-> FALSE],
          written |-> <<Unencrypted(WriteFile("output", f.pages))>>]
    ELSE [result |-> Failure([msg |-> "Incorrect password"]), written |-> <<>>]

\* ------------------------------------------------------------- Signature
\* pixel values
White == <<255, 255, 255>>
Grey(v) == <<v, v, v>>
Blue == <<0, 0, 255>>
Yellow == <<255, 255, 0>>

\* an image: white, but for the pixels marked, a later mark over an earlier one
Mark(x, y, rgb) == [x |-> x, y |-> y, rgb |-> rgb]
Img(mode, width, height, marks) ==
    [readable |-> TRUE, mode |-> mode, width |-> width, height |-> height,
     marks |-> marks]

\* bytes that Image.open does not identify as an image
BadImage == [Img("RGB", 0, 0, <<>>) EXCEPT !.readable = FALSE]

RECURSIVE PixelAt(_, _, _, _)
PixelAt(marks, x, y, k) ==
    IF k = 0 THEN White
    ELSE IF marks[k].x = x /\ marks[k].y = y THEN marks[k].rgb
    ELSE PixelAt(marks, x, y, k - 1)

Pixel(image, x, y) == PixelAt(image.marks, x, y, Len(image.marks))

\* Image.convert("L") of one pixel: L = R * 299/1000 + G * 587/1000 + B * 114/1000,
\* in the fixed-point arithmetic of the library
ToL(rgb) == (rgb[1] * 19595 + rgb[2] * 38470 + rgb[3] * 7471 + 32768) \div 65536

\* the sizes and the pixel coordinates the images are drawn from
Dims == {1, Padding + 1, MaxDim}
Coords(n) == {0, Padding, Padding + 1, n - 1} \cap (0..(n - 1))

SignatureImages ==
    {BadImage} \cup
    UNION {{Img("RGB", w, h, marks) :
               marks \in
                   {<<>>}
                   \cup {<<Mark(x, y, rgb)>> :
                            x \in Coords(w), y \in Coords(h),
                            rgb \in {Grey(InkThreshold - 1), Grey(InkThreshold),
                                     Blue, Yellow}}
                   \cup {<<Mark(x, y, rgb), Mark(x2, y2, Grey(InkThreshold - 1))>> :
                            x \in Coords(w), y \in Coords(h),
                            x2 \in Coords(w), y2 \in Coords(h),
                            rgb \in {Grey(InkThreshold - 1), Grey(InkThreshold),
                                     Blue, Yellow}}} :
           w \in Dims, h \in Dims}

\* variant: a pixel at the threshold counts as ink
NonWhite_mut(l) == l <= InkThreshold

\* np_image < 200
NonWhite(l) == l < InkThreshold

\* np.where(np_image < 200), as the set of <<x, y>>
NonWhitePixels(image) ==
    {xy \in (0..(image.width - 1)) \X (0..(image.height - 1)) :
        NonWhite(ToL(Pixel(image, xy[1], xy[2])))}

SetMin(S) == CHOOSE v \in S : \A u \in S : v <= u
SetMax(S) == CHOOSE v \in S : \A u \in S : v >= u

\* image.crop((left, upper, right, lower)) of the image converted to "L"
CropL(image, left, upper, right, lower) ==
    LET inside == SelectSeq(image.marks,
                      LAMBDA m : m.x >= left /\ m.x < right /\ m.y >= upper /\ m.y < lower)
    IN Img("L", right - left, lower - upper,
           [k \in 1..Len(inside) |->
               Mark(inside[k].x - left, inside[k].y - upper, Grey(ToL(inside[k].rgb)))])

\* crop_signature(image_data): the PNG returned with the box it was cropped to, or None
crop_signature(image_data) ==
    IF ~image_data.readable
    THEN [raised |-> TRUE, exc |-> [type |-> "UnidentifiedImageError"],
          returned |-> ReturnedNone]
    ELSE LET non_white_pixels == NonWhitePixels(image_data)
         IN IF non_white_pixels # {}
            THEN LET x_min == Max(0, SetMin({xy[1] : xy \in non_white_pixels}) - Padding)
                     y_min == Max(0, SetMin({xy[2] : xy \in non_white_pixels}) - Padding)
                     x_max == Min(image_data.width - 1,
                                  SetMax({xy[1] : xy \in non_white_pixels}) + Padding)
                     y_max == Min(image_data.height - 1,
                                  SetMax({xy[2] : xy \in non_white_pixels}) + Padding)
                 IN [raised |-> FALSE, exc |-> NoExc,
                     returned |-> [returned |-> "png",
                                   box |-> <<x_min, y_min, x_max + 1, y_max + 1>>,
                                   image |-> CropL(image_data, x_min, y_min,
                                                   x_max + 1, y_max + 1)]]
            ELSE [raised |-> FALSE, exc |-> NoExc, returned |-> ReturnedNone]

\* the pixel coordinates of an image
Pixels(image) == (0..(image.width - 1)) \X (0..(image.height - 1))

\* images of one row in which every pixel is given
StripColours == {Grey(0), Grey(100), Grey(InkThreshold), White, Blue}
StripImage(colours) ==
    Img("RGB", Len(colours), 1,
        [k \in 1..Len(colours) |-> Mark(k - 1, 0, colours[k])])
StripImages ==
    {BadImage} \cup
    UNION {{StripImage(colours) : colours \in [1..n -> StripColours]} : n \in 1..MaxStrip}

\* cv2.cvtColor(np_image, cv2.COLOR_RGBA2GRAY) of one pixel: 0.299 R + 0.587 G
\* + 0.114 B in the fixed-point arithmetic of the library
ToGray(rgb) == (rgb[1] * 4899 + rgb[2] * 9617 + rgb[3] * 1868 + 8192) \div 16384

GrayAt(image, xy) == ToGray(Pixel(image, xy[1], xy[2]))

\* the histogram of gray: how many pixels are at or below t, and their sum
CountLE(image, t) == Cardinality({xy \in Pixels(image) : GrayAt(image, xy) <= t})

RECURSIVE SumOver(_, _)
SumOver(image, S) ==
    IF S = {} THEN 0
    ELSE LET xy == CHOOSE p \in S : TRUE
         IN GrayAt(image, xy) + SumOver(image, S \ {xy})

SumLE(image, t) == SumOver(image, {xy \in Pixels(image) : GrayAt(image, xy) <= t})

\* the between-class variance of the split at t, q1 * q2 * (mu1 - mu2)^2, times the
\* square of the number of pixels: SigmaNum / SigmaDen
SigmaNum(image, t) ==
    LET n == Cardinality(Pixels(image))
        n0 == CountLE(image, t)
        s0 == SumLE(image, t)
        s1 == SumLE(image, 255) - s0
        d == s0 * (n - n0) - s1 * n0
    IN d * d

SigmaDen(image, t) ==
    LET n == Cardinality(Pixels(image))
        n0 == CountLE(image, t)
    IN n0 * (n - n0)

\* a split with an empty class is passed over
SplitsImage(image, t) == SigmaDen(image, t) > 0

\* sigma(t) > sigma(u)
SigmaGreater(image, t, u) ==
    SigmaNum(image, t) * SigmaDen(image, u) > SigmaNum(image, u) * SigmaDen(image, t)

\* the values cv2.threshold(..., THRESH_OTSU) can compute: max_val stays 0 when
\* no split has two classes; else it is a t of greatest sigma, the lowest of those
\* that give the same split; between splits of equal sigma the rounding of the
\* floating-point evaluation decides
OtsuThresholds(image) ==
    LET levels == {GrayAt(image, xy) : xy \in Pixels(image)}
        splits == {t \in levels : SplitsImage(image, t)}
    IN IF splits = {} THEN {0}
       ELSE {t \in splits : \A u \in splits : ~SigmaGreater(image, u, t)}

\* variant: THRESH_BINARY, without the inversion
Binary_mut(gray, thresh) == IF gray > thresh THEN 255 ELSE 0

\* cv2.THRESH_BINARY_INV: 0 if src > thresh, else maxval = 255
Binary(gray, thresh) == IF gray > thresh THEN 0 ELSE 255

\* extract_signature(image_data): the RGBA PNG returned; thresh is the value the
\* Otsu threshold computes
extract_signature(image_data, thresh) ==
    IF ~image_data.readable
    THEN [raised |-> TRUE, exc |-> [type |-> "UnidentifiedImageError"],
          returned |-> ReturnedNone]
    ELSE [raised |-> FALSE, exc |-> NoExc,
          returned |->
              [returned |-> "png",
               image |-> Img("RGBA", image_data.width, image_data.height,
                             image_data.marks)
                         @@ [alpha |-> [xy \in Pixels(image_data) |->
                                          Binary(GrayAt(image_data, xy), thresh)]]]]

\* the thresholds for the image process_signature_image hands to extract_signature
ProcessThresholds(signature_data) ==
    LET c == crop_signature(signature_data)
    IN IF c.raised \/ c.returned = ReturnedNone THEN {0}
       ELSE OtsuThresholds(c.returned.image)

\* process_signature_image(signature_data) -> (ok, data, base64)
process_signature_image(signature_data, thresh) ==
    LET c == crop_signature(signature_data)
    IN IF c.raised
       THEN [result |-> Raised(c.exc), invoked |-> <<>>]
       ELSE IF c.returned = ReturnedNone
       THEN [result |-> <<FALSE, [error |-> "No signature detected"], ReturnedNone>>,
             invoked |-> <<>>]
       ELSE LET extracted_data == extract_signature(c.returned.image, thresh).returned
            IN [result |-> <<TRUE, extracted_data,
                             [base64 |-> extracted_data]>>,
                invoked |-> <<[tool |-> "extract_signature",
                               image_data |-> c.returned.image]>>]

\* ------------------------------------------------------------- uploads
\* request.files[key]: the key may be absent, the filename empty
Uploads(name) ==
    {[key_present |-> FALSE, has_name |-> FALSE, file |-> Pdf(name, 1)],
     [key_present |-> TRUE, has_name |-> FALSE, file |-> Pdf(name, 1)]}
        \cup {[key_present |-> TRUE, has_name |-> TRUE, file |-> f] :
                  f \in {g \in Files(name) : g.exists}}

\* handle_file_upload(request, required_file_key) -> the error response, or
\* status 200 when the file was saved
handle_file_upload(u) ==
    IF ~u.key_present THEN Respond(400, [error |-> [msg |-> "No file provided"]])
    ELSE IF ~u.has_name THEN Respond(400, [error |-> [msg |-> "No selected file"]])
    ELSE IF ~u.file.ext_pdf THEN Respond(400, [error |-> [msg |-> "Invalid file type"]])
    ELSE Respond(200, [error |-> [msg |-> ""]])

\* a form token: int(token.strip()) returns val when num, raises ValueError otherwise
Tokens(S) == {[num |-> TRUE, val |-> v] : v \in S} \cup {[num |-> FALSE, val |-> 0]}

AllNumeric(tokens) == \A k \in 1..Len(tokens) : tokens[k].num

IntsOf(tokens) == [k \in 1..Len(tokens) |-> tokens[k].val]

\* [p for p in pages if p < 1 or p > total_pages]
invalid_pages(pages, total_pages) ==
    SelectSeq(pages, LAMBDA p : p < 1 \/ p > total_pages)

\* delete_pdf_pages_api(): tokens is the comma-split form field pages_to_remove,
\* <<>> for an absent or empty field
delete_pdf_pages_api(u, tokens) ==
    LET up == handle_file_upload(u)
        f == u.file
        none == [result |-> NoResult, written |-> <<>>]
    IN IF up.status # 200 THEN [response |-> up] @@ none
       ELSE IF Len(tokens) = 0
       THEN [response |-> Respond(400, [error |-> [msg |-> "No pages specified to remove"]])]
                @@ none
       ELSE IF ~AllNumeric(tokens)
       THEN [response |-> Respond(400, [error |-> [msg |-> "Invalid page numbers"]])] @@ none
       ELSE IF ~f.pypdf_ok
       THEN [response |-> Uncaught("PdfReadError")] @@ none
       ELSE LET pages == IntsOf(tokens)
                total_pages == Len(f.pages)
                inv == invalid_pages(pages, total_pages)
            IN IF Len(inv) # 0
               THEN [response |-> Respond(400, [error |-> [msg |-> "Invalid page numbers",
                                                          pages |-> inv,
                                                          total_pages |-> total_pages],
                                                total_pages |-> total_pages])] @@ none
               ELSE LET r == remove_pdf_pages(f, pages)
                    IN [response |-> Respond(200, [success |-> TRUE,
                                                   pages_removed |-> pages,
                                                   total_pages |-> total_pages]),
                        result |-> r.result,
                        written |-> r.written]

\* insert_pdf_api(): field is the form field position, <<>> when absent or empty,
\* <<token>> otherwise
insert_pdf_api(ub, ui, field) ==
    LET upb == handle_file_upload(ub)
        upi == handle_file_upload(ui)
        none == [result |-> NoResult, written |-> <<>>]
    IN IF upb.status # 200 THEN [response |-> upb] @@ none
       ELSE IF upi.status # 200 THEN [response |-> upi] @@ none
       ELSE IF Len(field) = 0
       THEN [response |-> Respond(400, [error |-> [msg |-> "Insertion position is required"]])]
                @@ none
       ELSE IF ~field[1].num
       THEN [response |-> Respond(400, [error |-> [msg |-> "Position must be a valid integer"]])]
                @@ none
       ELSE LET position == field[1].val - 1
            IN IF position < 0
               THEN [response |-> Respond(400, [error |-> [msg |-> "Position must be at least 1"]])]
                        @@ none
               ELSE LET r == insert_pdf_at_position(ub.file, ui.file, position)
                    IN [response |-> IF r.result.success
                                     THEN Respond(200, r.result @@ [output_filename |-> "output"])
                                     ELSE Respond(400, r.result),
                        result |-> r.result,
                        written |-> r.written]

\* request.files.getlist('files'): the k-th upload, saved under a name of its own
MergeUploads(k) == {u \in Uploads(FileNames[k]) : u.key_present}

\* the lists of n uploads
RECURSIVE UploadLists(_)
UploadLists(n) ==
    IF n = 0 THEN {<<>>}
    ELSE {Append(s, u) : s \in UploadLists(n - 1), u \in MergeUploads(n)}

\* for file in files: skip a file without a .pdf name, save and validate the
\* others, keep the valid ones
RECURSIVE ValidFilepaths(_, _)
ValidFilepaths(files, k) ==
    IF k > Len(files) THEN <<>>
    ELSE (IF ~files[k].has_name \/ ~files[k].file.ext_pdf THEN <<>>
          ELSE IF validate_pdf(files[k].file)[1] THEN <<files[k].file>>
          ELSE <<>>)
             \o ValidFilepaths(files, k + 1)

\* merge_pdfs_api()
merge_pdfs_api(files) ==
    LET none == [result |-> NoResult, written |-> <<>>]
    IN IF Len(files) < 2
       THEN [response |-> Respond(400,
                 [error |-> [msg |-> "At least two PDF files are required for merging"]])]
                @@ none
       ELSE LET filepaths == ValidFilepaths(files, 1)
            IN IF Len(filepaths) < 2
               THEN [response |-> Respond(400,
                         [error |-> [msg |-> "At least two valid PDF files are required for merging"]])]
                        @@ none
               ELSE LET r == merge_pdfs(filepaths)
                    IN [response |-> Respond(200, IF r.result.success
                                                  THEN r.result @@ [output_filename |-> "output"]
                                                  ELSE r.result),
                        result |-> r.result,
                        written |-> r.written]

\* ------------------------------------------------------------- Sign
\* the signature image file at sig_path
SigFile(exists, image_ok) == [name |-> "sig", exists |-> exists, image_ok |-> image_ok]
SigFiles == {SigFile(TRUE, TRUE), SigFile(TRUE, FALSE), SigFile(FALSE, FALSE)}

\* coords: x, y, width, height
Coords4(x, y, width, height) == [x |-> x, y |-> y, width |-> width, height |-> height]
SignCoords == {Coords4(0, 0, 150, 80), Coords4(10, 20, 0, 80)}

SignFiles ==
    {Pdf("in", n) : n \in 1..MaxPages} \cup {MissingFile("in"), CorruptFile("in")}

\* doc[page_num]: Document.__getitem__ raises IndexError unless page_num <
\* page_count
PageNotInDocument(page_num, page_count) == page_num >= page_count

\* doc[page_num]: load_page counts an index below zero from the end of the
\* document; the 1-based position of the page loaded
LoadedPage(page_num, page_count) == (page_num % page_count) + 1

SignFailure(exc) == <<FALSE, [error |-> [msg |-> "Failed to sign PDF", exc |-> exc]]>>

\* sign_pdf_document(pdf_path, sig_path, output_path, coords, page_num) -> (ok, dict)
sign_pdf_document(f, sig, coords, page_num) ==
    IF ~f.exists \/ ~f.fitz_ok
    THEN [result |-> SignFailure([type |-> IF f.exists THEN "FileDataError"
                                           ELSE "FileNotFoundError"]),
          written |-> <<>>]
    ELSE IF PageNotInDocument(page_num, Len(f.pages))
    THEN [result |-> SignFailure([type |-> "IndexError: page not in document"]),
          written |-> <<>>]
    ELSE IF ~sig.exists
    THEN [result |-> SignFailure([type |-> "FileNotFoundError"]), written |-> <<>>]
    ELSE IF coords.width <= 0 \/ coords.height <= 0
    THEN [result |-> SignFailure([type |-> "ValueError: rect must be finite and not empty"]),
          written |-> <<>>]
    ELSE IF ~sig.image_ok
    THEN [result |-> SignFailure([type |-> "RuntimeError: unsupported image"]),
          written |-> <<>>]
    ELSE [result |-> <<TRUE, [message |-> "PDF signed successfully"]>>,
          written |-> <<WriteFile("output", f.pages)
                          @@ [signatures |->
                                {[page |-> f.pages[LoadedPage(page_num, Len(f.pages))],
                                  at |-> LoadedPage(page_num, Len(f.pages)),
                                  rect |-> <<coords.x, coords.y,
                                             coords.x + coords.width,
                                             coords.y + coords.height>>,
                                  image |-> sig.name]}]>>]

\* the JSON body of POST /sign-pdf: the two filenames, given or not, the files
\* they name, and the page field
SignRequests ==
    [pdf_filename : BOOLEAN, signature_filename : BOOLEAN,
     pdf : {Pdf("in", 2), MissingFile("in")},
     sig : {SigFile(TRUE, TRUE), SigFile(FALSE, FALSE)},
     coords : {Coords4(0, 0, 150, 80)},
     page : Tokens((0 - 1)..2)]

\* sign_pdf_api()
sign_pdf_api(data) ==
    IF ~data.pdf_filename \/ ~data.signature_filename
    THEN [response |-> Respond(400, [error |-> [msg |-> "Missing filename parameters"]]),
          result |-> NoResult, written |-> <<>>]
    ELSE IF ~data.pdf.exists \/ ~data.sig.exists
    THEN [response |-> Respond(404, [error |-> [msg |-> "PDF or signature file not found"]]),
          result |-> NoResult, written |-> <<>>]
    ELSE IF ~data.page.num
    THEN [response |-> Uncaught("ValueError"),
          result |-> NoResult, written |-> <<>>]
    ELSE LET r == sign_pdf_document(data.pdf, data.sig, data.coords, data.page.val)
         IN IF ~r.result[1]
            THEN [response |-> Respond(500, r.result[2]),
                  result |-> r.result, written |-> r.written]
            ELSE [response |-> Respond(200, [success |-> TRUE,
                                             output_filename |-> "output",
                                             message |-> r.result[2].message]),
                  result |-> r.result, written |-> r.written]

\* ------------------------------------------------------------- calls in sequence
\* the file an operation wrote, opened as the input of a next operation
AsInput(w) == [Pdf(w.filename, 0) EXCEPT !.pages = w.pages]

AsPwInput(w) ==
    AsInput(w) @@ [encrypted |-> w.encrypted, user_pw |-> w.user_pw,
                   owner_pw |-> w.owner_pw]

\* no call before the first
NoCall == [op |-> "none"]

\* the passwords of the calls made in sequence
ChainPasswords == {Str(<<"a">>), Str(<<"b">>), Str(<<" ">>)}

\* a call of add_pdf_password or remove_pdf_password has returned and another is
\* made on the document at hand; the first call is given an unencrypted
\* document
PwCallReturned ==
    /\ pc = "done"
    /\ call.op \in {"add_pdf_password", "remove_pdf_password"}
    /\ call.nth < MaxChain
    /\ call.file.exists /\ call.file.pypdf_ok /\ Len(call.file.pages) >= 1
    /\ call.password \in ChainPasswords
    /\ call.nth > 1 \/ ~call.file.encrypted

\* the document at hand: the output of the call when it succeeded, else its input
DocumentAtHand == IF result.success THEN AsPwInput(written[1]) ELSE call.file

\* the last call that succeeded
LastOk ==
    IF result.success
    THEN [op |-> call.op, password |-> call.password, file |-> call.file]
    ELSE call.last_ok

\* the runs of page numbers s..e
PageRuns(n) == {[k \in 1..(e - s + 1) |-> s + k - 1] : s \in 1..n, e \in 1..n} \ {<<>>}

\* ------------------------------------------------------------- state machine
Init ==
    /\ pc = "idle"
    /\ call = [op |-> "none"]
    /\ result = NoResult
    /\ written = <<>>
    /\ response = NoResponse
    /\ invoked = <<>>

\* a direct call of remove_pdf_pages
RemovePdfPages ==
    /\ pc = "idle"
    /\ \E f \in Files("in"), pages \in SeqsUpTo(0..(MaxPages + 1), MaxLen) :
          LET r == remove_pdf_pages(f, pages)
          IN /\ call' = [op |-> "remove_pdf_pages", file |-> f, pages_to_remove |-> pages]
             /\ result' = r.result
             /\ written' = r.written
    /\ response' = NoResponse
    /\ invoked' = <<>>
    /\ pc' = "done"

\* POST /delete_pages
DeletePdfPagesApi ==
    /\ pc = "idle"
    /\ \E u \in Uploads("in"), tokens \in SeqsUpTo(Tokens(0..(MaxPages + 1)), MaxLen) :
          LET r == delete_pdf_pages_api(u, tokens)
          IN /\ call' = [op |-> "delete_pdf_pages_api", upload |-> u, tokens |-> tokens]
             /\ result' = r.result
             /\ written' = r.written
             /\ response' = r.response
    /\ invoked' = <<>>
    /\ pc' = "done"

\* a direct call of insert_pdf_at_position
InsertPdfAtPosition ==
    /\ pc = "idle"
    /\ \E base \in Files("base"), ins \in Files("insert"),
          position \in (-1)..(MaxPages + 1) :
          LET r == insert_pdf_at_position(base, ins, position)
          IN /\ call' = [op |-> "insert_pdf_at_position", base |-> base, ins |-> ins,
                         position |-> position]
             /\ result' = r.result
             /\ written' = r.written
    /\ response' = NoResponse
    /\ invoked' = <<>>
    /\ pc' = "done"

\* POST /insert_pdf
InsertPdfApi ==
    /\ pc = "idle"
    /\ \E ub \in Uploads("base"), ui \in Uploads("insert"),
          field \in SeqsUpTo(Tokens((-1)..(MaxPages + 2)), 1) :
          LET r == insert_pdf_api(ub, ui, field)
          IN /\ call' = [op |-> "insert_pdf_api", base |-> ub.file, ins |-> ui.file,
                         uploads |-> <<ub, ui>>, field |-> field]
             /\ result' = r.result
             /\ written' = r.written
             /\ response' = r.response
    /\ invoked' = <<>>
    /\ pc' = "done"

\* a direct call of reorder_pages
ReorderPages ==
    /\ pc = "idle"
    /\ \E f \in Files("in"), new_order \in SeqsUpTo((-1)..MaxPages, MaxLen) :
          LET r == reorder_pages(f, new_order)
          IN /\ call' = [op |-> "reorder_pages", file |-> f, new_order |-> new_order]
             /\ result' = r.result
             /\ written' = r.written
    /\ response' = NoResponse
    /\ invoked' = <<>>
    /\ pc' = "done"

\* a direct call of split_pdf
SplitPdf ==
    /\ pc = "idle"
    /\ \E f \in Files("in"),
          page_ranges \in SeqsUpTo((0..(MaxPages + 1)) \X (0..(MaxPages + 1)), MaxRanges) :
          LET r == split_pdf(f, page_ranges)
          IN /\ call' = [op |-> "split_pdf", file |-> f, page_ranges |-> page_ranges]
             /\ result' = r.result
             /\ written' = r.written
    /\ response' = NoResponse
    /\ invoked' = <<>>
    /\ pc' = "done"

\* a direct call of merge_pdfs
MergePdfs ==
    /\ pc = "idle"
    /\ \E n \in 0..MaxFiles :
          \E input_paths \in InputPaths(n) :
             LET r == merge_pdfs(input_paths)
             IN /\ call' = [op |-> "merge_pdfs", input_paths |-> input_paths]
                /\ result' = r.result
                /\ written' = r.written
    /\ response' = NoResponse
    /\ invoked' = <<>>
    /\ pc' = "done"

\* POST /merge
MergePdfsApi ==
    /\ pc = "idle"
    /\ \E n \in 0..MaxFiles :
          \E files \in UploadLists(n) :
             LET r == merge_pdfs_api(files)
             IN /\ call' = [op |-> "merge_pdfs_api", files |-> files]
                /\ result' = r.result
                /\ written' = r.written
                /\ response' = r.response
    /\ invoked' = <<>>
    /\ pc' = "done"

\* a direct call of compress_with_pil
CompressWithPil ==
    /\ pc = "idle"
    /\ \E n \in 0..MaxPages :
          \E images \in ImageLists(n), quality \in {QInt(30), QInt(85)},
             readable \in BOOLEAN :
             LET f == IF readable THEN ImageDoc(images, 1)
                      ELSE [ImageDoc(images, 1) EXCEPT !.fitz_ok = FALSE]
                 r == compress_with_pil(f, quality)
             IN /\ call' = [op |-> "compress_with_pil", file |-> f, quality |-> quality]
                /\ result' = IF r.raised THEN Raised(r.exc) ELSE ReturnedNone
                /\ written' = r.written
                /\ invoked' = r.invoked
    /\ response' = NoResponse
    /\ pc' = "done"

\* a direct call of compress_with_pymupdf
CompressWithPymupdf ==
    /\ pc = "idle"
    /\ \E n \in 0..1 :
          \E v \in (0 - MaxQualityOver)..(100 + MaxQualityOver) :
             LET f == ImageDoc([k \in 1..n |-> <<>>], 1)
                 r == compress_with_pymupdf(f, QInt(v))
             IN /\ call' = [op |-> "compress_with_pymupdf", file |-> f,
                            quality |-> QInt(v)]
                /\ result' = IF r.raised THEN Raised(r.exc) ELSE ReturnedNone
                /\ written' = r.written
                /\ invoked' = r.invoked
    /\ response' = NoResponse
    /\ pc' = "done"

\* subprocess.run blocks compress_pdf until the gs process ends
LaunchesGs(f, method, env) == f.exists /\ method = "ghostscript" /\ env.gs.installed

\* a direct call of compress_pdf, up to its return or to the wait for gs
CompressPdf ==
    /\ pc = "idle"
    /\ \E f \in CompressFiles, method \in Methods, quality_level \in QualityLevels :
          \E env \in CompressEnvs(method) :
             LET r == compress_pdf(f, method, quality_level, env)
             IN /\ call' = [op |-> "compress_pdf", file |-> f, method |-> method,
                            quality_level |-> quality_level, env |-> env]
                /\ IF LaunchesGs(f, method, env)
                   THEN /\ result' = NoResult
                        /\ written' = <<>>
                        /\ invoked' = <<GsCommand(quality_level)>>
                        /\ pc' = "gs_running"
                   ELSE /\ result' = r.result
                        /\ written' = r.written
                        /\ invoked' = r.invoked
                        /\ pc' = "done"
    /\ response' = NoResponse

\* the gs process ends: subprocess.run returns or raises, and compress_pdf
\* runs to its return
GsExit ==
    /\ pc = "gs_running"
    /\ call.env.gs.exits
    /\ LET r == compress_pdf(call.file, call.method, call.quality_level, call.env)
       IN /\ result' = r.result
          /\ written' = r.written
          /\ invoked' = r.invoked
    /\ pc' = "done"
    /\ UNCHANGED <<call, response>>

\* a direct call of add_pdf_password
AddPdfPassword ==
    /\ pc = "idle"
    /\ \E f \in PwFiles, password \in Passwords \cup {None} :
          LET r == add_pdf_password(f, password)
          IN /\ call' = [op |-> "add_pdf_password", file |-> f, password |-> password,
                         nth |-> 1, last_ok |-> NoCall]
             /\ result' = r.result
             /\ written' = r.written
    /\ response' = NoResponse
    /\ invoked' = <<>>
    /\ pc' = "done"

\* a direct call of remove_pdf_password
RemovePdfPassword ==
    /\ pc = "idle"
    /\ \E f \in PwFiles, password \in Passwords :
          \E decrypt_success \in DecryptCodes(f, password.chars) :
             LET r == remove_pdf_password(f, password, decrypt_success)
             IN /\ call' = [op |-> "remove_pdf_password", file |-> f,
                            password |-> password,
                            decrypt_success |-> decrypt_success,
                            nth |-> 1, last_ok |-> NoCall]
                /\ result' = r.result
                /\ written' = r.written
    /\ response' = NoResponse
    /\ invoked' = <<>>
    /\ pc' = "done"

\* add_pdf_password called on the document at hand after an earlier call
AddPdfPasswordNext ==
    /\ PwCallReturned
    /\ \E password \in ChainPasswords :
          LET f == DocumentAtHand
              r == add_pdf_password(f, password)
          IN /\ call' = [op |-> "add_pdf_password", file |-> f, password |-> password,
                         nth |-> call.nth + 1, last_ok |-> LastOk]
             /\ result' = r.result
             /\ written' = r.written
    /\ UNCHANGED <<pc, response, invoked>>

\* remove_pdf_password called on the document at hand after an earlier call
RemovePdfPasswordNext ==
    /\ PwCallReturned
    /\ \E password \in ChainPasswords :
          \E decrypt_success \in DecryptCodes(DocumentAtHand, password.chars) :
             LET f == DocumentAtHand
                 r == remove_pdf_password(f, password, decrypt_success)
             IN /\ call' = [op |-> "remove_pdf_password", file |-> f,
                            password |-> password,
                            decrypt_success |-> decrypt_success,
                            nth |-> call.nth + 1, last_ok |-> LastOk]
                /\ result' = r.result
                /\ written' = r.written
    /\ UNCHANGED <<pc, response, invoked>>

\* remove_pdf_pages called on the output of a successful insert_pdf_at_position
RemovePdfPagesNext ==
    /\ pc = "done"
    /\ call.op = "insert_pdf_at_position"
    /\ result.success
    /\ \E pages \in PageRuns(Len(written[1].pages) + 1) :
          LET f == AsInput(written[1])
              r == remove_pdf_pages(f, pages)
          IN /\ call' = [op |-> "remove_pdf_pages", file |-> f,
                         pages_to_remove |-> pages, after |-> call]
             /\ result' = r.result
             /\ written' = r.written
    /\ UNCHANGED <<pc, response, invoked>>

\* a direct call of crop_signature
CropSignature ==
    /\ pc = "idle"
    /\ \E image_data \in SignatureImages :
          LET r == crop_signature(image_data)
          IN /\ call' = [op |-> "crop_signature", image_data |-> image_data]
             /\ result' = IF r.raised THEN Raised(r.exc) ELSE r.returned
    /\ written' = <<>>
    /\ response' = NoResponse
    /\ invoked' = <<>>
    /\ pc' = "done"

\* a direct call of extract_signature
ExtractSignature ==
    /\ pc = "idle"
    /\ \E image_data \in StripImages :
          \E thresh \in IF image_data.readable THEN OtsuThresholds(image_data) ELSE {0} :
             LET r == extract_signature(image_data, thresh)
             IN /\ call' = [op |-> "extract_signature", image_data |-> image_data,
                            thresh |-> thresh]
                /\ result' = IF r.raised THEN Raised(r.exc) ELSE r.returned
    /\ written' = <<>>
    /\ response' = NoResponse
    /\ invoked' = <<>>
    /\ pc' = "done"

\* a direct call of process_signature_image
ProcessSignatureImage ==
    /\ pc = "idle"
    /\ \E signature_data \in StripImages :
          \E thresh \in ProcessThresholds(signature_data) :
             LET r == process_signature_image(signature_data, thresh)
             IN /\ call' = [op |-> "process_signature_image",
                            image_data |-> signature_data, thresh |-> thresh]
                /\ result' = r.result
                /\ invoked' = r.invoked
    /\ written' = <<>>
    /\ response' = NoResponse
    /\ pc' = "done"

\* a direct call of analyze_pdf_content
AnalyzePdfContent ==
    /\ pc = "idle"
    /\ \E f \in AnalysisFiles :
          /\ call' = [op |-> "analyze_pdf_content", file |-> f]
          /\ result' = analyze_pdf_content(f)
    /\ written' = <<>>
    /\ response' = NoResponse
    /\ invoked' = <<>>
    /\ pc' = "done"

\* a direct call of sign_pdf_document
SignPdfDocument ==
    /\ pc = "idle"
    /\ \E f \in SignFiles, sig \in SigFiles, coords \in SignCoords,
          page_num \in (0 - (MaxPages + 1))..(MaxPages + 1) :
          LET r == sign_pdf_document(f, sig, coords, page_num)
          IN /\ call' = [op |-> "sign_pdf_document", file |-> f, sig |-> sig,
                         coords |-> coords, page_num |-> page_num]
             /\ result' = r.result
             /\ written' = r.written
    /\ response' = NoResponse
    /\ invoked' = <<>>
    /\ pc' = "done"

\* POST /sign-pdf
SignPdfApi ==
    /\ pc = "idle"
    /\ \E data \in SignRequests :
          LET r == sign_pdf_api(data)
          IN /\ call' = [op |-> "sign_pdf_api", data |-> data]
             /\ result' = r.result
             /\ written' = r.written
             /\ response' = r.response
    /\ invoked' = <<>>
    /\ pc' = "done"

Next ==
    \/ AddPdfPasswordNext
    \/ RemovePdfPasswordNext
    \/ RemovePdfPagesNext
    \/ SignPdfDocument
    \/ SignPdfApi
    \/ AnalyzePdfContent
    \/ ExtractSignature
    \/ CropSignature
    \/ ProcessSignatureImage
    \/ AddPdfPassword
    \/ RemovePdfPassword
    \/ CompressWithPil
    \/ CompressWithPymupdf
    \/ CompressPdf
    \/ GsExit
    \/ RemovePdfPages
    \/ DeletePdfPagesApi
    \/ InsertPdfAtPosition
    \/ InsertPdfApi
    \/ ReorderPages
    \/ SplitPdf
    \/ MergePdfs
    \/ MergePdfsApi

Spec == Init /\ [][Next]_vars

\* ------------------------------------------------------------- claims
\* the document of a file the strict parser reads
Readable(f) == f.exists /\ f.pypdf_ok

\* the 1-based position, in its source document, of a written page
Pos(page) == page[2]

\* the 1-based position of a page in the document the call was given
PosInFile(page) == CHOOSE i \in 1..Len(call.file.pages) : call.file.pages[i] = page

StrictlyIncreasing(pages) ==
    \A i, j \in 1..Len(pages) : i < j => PosInFile(pages[i]) < PosInFile(pages[j])

CalledRemoveInRange ==
    /\ pc = "done"
    /\ call.op = "remove_pdf_pages"
    /\ Readable(call.file)
    /\ Len(call.pages_to_remove) > 0
    /\ \A k \in 1..Len(call.pages_to_remove) :
           call.pages_to_remove[k] \in 1..Len(call.file.pages)

CalledRemoveOutOfRange ==
    /\ pc = "done"
    /\ call.op = "remove_pdf_pages"
    /\ Readable(call.file)
    /\ \E k \in 1..Len(call.pages_to_remove) :
           call.pages_to_remove[k] \notin 1..Len(call.file.pages)

\* C1: remove_pdf_pages on a document of N pages with a non-empty list of
\* indices all in [1,N], S the set of its entries: the call succeeds, writes one
\* output of N - |S| pages, which are exactly the pages outside S, in their
\* original relative order.
C1_DeleteRemovesExactlyS ==
    CalledRemoveInRange =>
        LET S == Range(call.pages_to_remove)
            src == call.file.pages
        IN /\ result.success
           /\ Len(written) = 1
           /\ Len(written[1].pages) = Len(src) - Cardinality(S)
           /\ Range(written[1].pages) = {src[i] : i \in (1..Len(src)) \ S}
           /\ StrictlyIncreasing(written[1].pages)

C1_Witness ==
    /\ CalledRemoveInRange
    /\ Len(call.file.pages) = 3
    /\ call.pages_to_remove = <<2>>
    /\ written = <<WriteFile("output", <<<<"in", 1>>, <<"in", 3>>>>)>>

\* C2: remove_pdf_pages with one or more indices outside [1, pageCount] fails,
\* writes no output, and its failure reports ALL the invalid indices of the
\* request together with pageCount.
C2_DeleteReportsAllInvalid ==
    CalledRemoveOutOfRange =>
        /\ ~result.success
        /\ written = <<>>
        /\ result.error.total_pages = Len(call.file.pages)
        /\ Range(result.error.pages)
               = {p \in Range(call.pages_to_remove) : p \notin 1..Len(call.file.pages)}

\* an Insert call, direct or through the endpoint, that carries two valid
\* documents and an integer position
CalledInsert ==
    /\ pc = "done"
    /\ call.op \in {"insert_pdf_at_position", "insert_pdf_api"}
    /\ validate_pdf(call.base)[1]
    /\ validate_pdf(call.ins)[1]
    /\ call.op = "insert_pdf_api" =>
           /\ \A k \in 1..2 : call.uploads[k].key_present /\ call.uploads[k].has_name
           /\ Len(call.field) = 1
           /\ call.field[1].num

\* the 1-based position the caller asked for
Position1 ==
    IF call.op = "insert_pdf_api" THEN call.field[1].val ELSE call.position + 1

\* the failure an Insert call ended in, "" when it did not fail
InsertErrorMsg ==
    IF call.op = "insert_pdf_api"
    THEN (IF response.status = 400 THEN response.body.error.msg ELSE "")
    ELSE (IF result.success THEN "" ELSE result.error.msg)

\* C3: Insert of an M-page document into an N-page base at a valid 1-based
\* position p in [1, N+1]: the output has N+M pages, positions [p, p+M) hold the
\* inserted document's pages in order, the base pages before p and from p on
\* surround them in order, and the result reports new_page_count = N+M and
\* insertion_position = p.
C3_InsertPlacesPagesAtP ==
    (CalledInsert /\ Position1 \in 1..(Len(call.base.pages) + 1)) =>
        LET N == Len(call.base.pages)
            M == Len(call.ins.pages)
            q == Position1
        IN /\ result.success
           /\ Len(written) = 1
           /\ Len(written[1].pages) = N + M
           /\ SubSeq(written[1].pages, q, q + M - 1) = call.ins.pages
           /\ SubSeq(written[1].pages, 1, q - 1) = SubSeq(call.base.pages, 1, q - 1)
           /\ SubSeq(written[1].pages, q + M, N + M) = SubSeq(call.base.pages, q, N)
           /\ result.new_page_count = N + M
           /\ result.insertion_position = q
           /\ result.base_page_count = N
           /\ result.insert_page_count = M
           /\ call.op = "insert_pdf_api" =>
                  /\ response.status = 200
                  /\ response.body.success
                  /\ response.body.new_page_count = N + M
                  /\ response.body.insertion_position = q

C3_Witness ==
    /\ CalledInsert
    /\ call.op = "insert_pdf_api"
    /\ Position1 = 2
    /\ written = <<WriteFile("output",
                     <<<<"base", 1>>, <<"insert", 1>>, <<"insert", 2>>, <<"base", 2>>>>)>>

\* C4: with two valid documents, a 1-based position is accepted iff it lies in
\* [1, baseCount+1]; any other position ends in an invalid-position failure and
\* nothing is written.
C4_InsertPositionRange ==
    CalledInsert =>
        IF Position1 \in 1..(Len(call.base.pages) + 1)
        THEN result.success /\ Len(written) = 1 /\ InsertErrorMsg = ""
        ELSE /\ written = <<>>
             /\ InsertErrorMsg \in {"Invalid position", "Position must be at least 1"}
             /\ call.op = "insert_pdf_api" => response.status = 400
             /\ call.op = "insert_pdf_at_position" => ~result.success

C4_Witness ==
    /\ CalledInsert
    /\ call.op = "insert_pdf_api"
    /\ Position1 = Len(call.base.pages) + 2
    /\ InsertErrorMsg = "Invalid position"
    /\ written = <<>>

\* a reorder_pages call on a valid document
CalledReorder ==
    /\ pc = "done"
    /\ call.op = "reorder_pages"
    /\ validate_pdf(call.file)[1]

OrderInRange ==
    \A k \in 1..Len(call.new_order) : call.new_order[k] \in 0..(Len(call.file.pages) - 1)

ReorderRejectedOutOfRange ==
    /\ ~result.success
    /\ result.error.msg = "Page index is out of range"
    /\ written = <<>>

\* C6 as stated: reorder_pages fails with the out-of-range error, writing
\* nothing, exactly when some entry lies outside [0, pageCount); every order
\* whose entries all lie inside is accepted, whatever its length.
C6_ReorderAcceptsAnyLength ==
    CalledReorder =>
        /\ ReorderRejectedOutOfRange <=> ~OrderInRange
        /\ OrderInRange => result.success /\ Len(written) = 1

\* C6 amended: the same for the non-empty orders; the empty order is rejected
\* with "No page order specified" and writes nothing.
C6_ReorderAcceptsNonEmpty ==
    CalledReorder =>
        IF Len(call.new_order) = 0
        THEN ~result.success /\ result.error.msg = "No page order specified"
                /\ written = <<>>
        ELSE /\ ReorderRejectedOutOfRange <=> ~OrderInRange
             /\ OrderInRange => result.success /\ Len(written) = 1

C6_Witness ==
    /\ CalledReorder
    /\ call.new_order = <<0, 2>>
    /\ Len(call.file.pages) = 2
    /\ ReorderRejectedOutOfRange
    /\ result.error.page_idx = 2

\* a split_pdf call on a valid document with explicit ranges
CalledSplit ==
    /\ pc = "done"
    /\ call.op = "split_pdf"
    /\ validate_pdf(call.file)[1]
    /\ Len(call.page_ranges) > 0

\* the positions, in the request, of the ranges with 1 <= start <= end <= pageCount
ValidRangeIdx ==
    {k \in 1..Len(call.page_ranges) :
        /\ 1 <= call.page_ranges[k][1]
        /\ call.page_ranges[k][1] <= call.page_ranges[k][2]
        /\ call.page_ranges[k][2] <= Len(call.file.pages)}

\* C7: split_pdf skips every range with start<1, end>pageCount or start>end
\* without failing; each other range yields exactly one output holding pages
\* start..end in order, with page_count = end-start+1; split_count is the
\* number of valid ranges.
C7_SplitLenientPerRange ==
    CalledSplit =>
        /\ result.success
        /\ result.split_count = Cardinality(ValidRangeIdx)
        /\ Len(written) = Cardinality(ValidRangeIdx)
        /\ Len(result.output_files) = Len(written)
        /\ \A j \in 1..Len(written) :
               /\ written[j].filename.index \in ValidRangeIdx
               /\ \A i \in 1..Len(written) :
                      i < j => written[i].filename.index < written[j].filename.index
               /\ LET r == call.page_ranges[written[j].filename.index]
                  IN /\ written[j].pages = SubSeq(call.file.pages, r[1], r[2])
                     /\ result.output_files[j].page_range = r
                     /\ result.output_files[j].page_count = r[2] - r[1] + 1
                     /\ result.output_files[j].page_count = Len(written[j].pages)

C7_Witness ==
    /\ CalledSplit
    /\ Len(call.file.pages) = 3
    /\ call.page_ranges = <<<<1, 2>>, <<4, 4>>>>
    /\ result.success
    /\ result.split_count = 1
    /\ written = <<WriteFile(SplitFilename(0, 1, 2), <<<<"in", 1>>, <<"in", 2>>>>)>>

\* a merge_pdfs call with two inputs or more
CalledMerge ==
    /\ pc = "done"
    /\ call.op = "merge_pdfs"
    /\ Len(call.input_paths) >= 2

InvalidInputIdx ==
    {k \in 1..Len(call.input_paths) : ~validate_pdf(call.input_paths[k])[1]}

\* C8: merge_pdfs with an invalid input at any position fails, names the first
\* invalid input in input order, and writes no merged output.
C8_MergeAllOrNothing ==
    (CalledMerge /\ InvalidInputIdx # {}) =>
        /\ ~result.success
        /\ written = <<>>
        /\ result.error.msg = "Invalid PDF file"
        /\ \E k \in InvalidInputIdx :
               /\ \A j \in InvalidInputIdx : k <= j
               /\ result.error.filename = call.input_paths[k].name

C8_Witness ==
    /\ CalledMerge
    /\ InvalidInputIdx = {3}
    /\ ~result.success
    /\ result.error.filename = "f3"
    /\ written = <<>>

\* the position of a page's document in the input list
DocIdx(page) == CHOOSE k \in 1..Len(call.input_paths) : call.input_paths[k].name = page[1]

\* C9: merge_pdfs with k >= 2 valid inputs writes the concatenation of the
\* inputs' pages, in document order and in page order inside each document;
\* file_info lists the page counts in input order and total_pages is their sum,
\* the number of pages of the output.
C9_MergeConcatenates ==
    (CalledMerge /\ InvalidInputIdx = {}) =>
        /\ result.success
        /\ Len(written) = 1
        /\ LET out == written[1].pages
           IN /\ Range(out) = UNION {Range(call.input_paths[k].pages) :
                                        k \in 1..Len(call.input_paths)}
              /\ Len(out) = Cardinality(Range(out))
              /\ \A i, j \in 1..Len(out) :
                     i < j => \/ DocIdx(out[i]) < DocIdx(out[j])
                              \/ DocIdx(out[i]) = DocIdx(out[j]) /\ Pos(out[i]) < Pos(out[j])
              /\ result.total_pages = Len(out)
        /\ Len(result.file_info) = Len(call.input_paths)
        /\ \A k \in 1..Len(call.input_paths) :
               /\ result.file_info[k].page_count = Len(call.input_paths[k].pages)
               /\ result.file_info[k].filename = call.input_paths[k].name

C9_Witness ==
    /\ CalledMerge
    /\ Len(call.input_paths) = 2
    /\ result.success
    /\ result.total_pages = 3
    /\ result.file_info[1].page_count = 1
    /\ result.file_info[2].page_count = 2
    /\ written = <<WriteFile("output", <<<<"f1", 1>>, <<"f2", 1>>, <<"f2", 2>>>>)>>

\* an upload the merge endpoint does not take as a valid document
InvalidUpload(u) == ~u.has_name \/ ~u.file.ext_pdf \/ ~validate_pdf(u.file)[1]

\* C10: a merge request that uploads two files or more, one of them at least
\* not a valid document, ends in failure and produces no merged output.
C10_MergeApiAllOrNothing ==
    (/\ pc = "done"
     /\ call.op = "merge_pdfs_api"
     /\ Len(call.files) >= 2
     /\ \E k \in 1..Len(call.files) : InvalidUpload(call.files[k])) =>
        /\ response.status # 200
        /\ written = <<>>

\* ------------------------------------------------------------- claims: Compress
\* the images of the input at or above the size threshold, as <<page, index>>
LargeImages(f) ==
    {<<k, j>> \in (1..Len(f.images)) \X (1..1) :
        j <= Len(f.images[k]) /\ f.images[k][j].bytes >= MinImageBytes}

CompressedWithPil ==
    /\ pc = "done"
    /\ call.op = "compress_with_pil"
    /\ result = ReturnedNone

\* C11: compress_with_pil saves a document in which every embedded image of
\* at least the minimum size is the image re-encoded at the requested quality,
\* not the original bytes.
C11_PilSplicesReencodedImages ==
    CompressedWithPil =>
        /\ Len(written) = 1
        /\ \A kj \in LargeImages(call.file) :
               written[1].images[kj[1]][kj[2]].data = Jpeg(call.quality.val)

CalledPymupdf ==
    /\ pc = "done"
    /\ call.op = "compress_with_pymupdf"
    /\ Len(invoked) = 1
    /\ invoked[1].tool = "fitz.save"

\* C12 as stated: for a quality in 0..100 the clean level passed to the save is
\* (100 - quality) / 10 rounded to a nearest integer and clamped to 0..9;
\* for any other quality the level is in 0..9.
C12_CleanLevelRounded ==
    CalledPymupdf =>
        LET x == 100 - call.quality.val
            c == invoked[1].clean
        IN /\ c \in 0..MaxClean
           /\ x \in 0..100 =>
                 \E n \in 0..10 : /\ 10 * n - x \in (0 - 5)..5
                                  /\ c = Min(n, MaxClean)

\* C12: for a quality in 0..100 the clean level passed to the save is
\* (100 - quality) / 10 truncated to an integer and clamped to 0..9; a quality
\* above 100 gives level 0, a quality below 0 gives level 9.
C12_CleanLevelTruncated ==
    CalledPymupdf =>
        LET x == 100 - call.quality.val
            c == invoked[1].clean
        IN /\ c \in 0..MaxClean
           /\ x < 0 => c = 0
           /\ x > 100 => c = MaxClean
           /\ x \in 0..100 =>
                 \E n \in 0..10 : /\ 10 * n <= x
                                  /\ x < 10 * n + 10
                                  /\ c = Min(n, MaxClean)

C12_Witness ==
    /\ CalledPymupdf
    /\ call.quality = QInt(94)
    /\ invoked[1].clean = 0
    /\ result = ReturnedNone
    /\ Len(written) = 1

Abs(x) == IF x >= 0 THEN x ELSE 0 - x

CompressSucceeded ==
    /\ pc = "done"
    /\ call.op = "compress_pdf"
    /\ result.success

KnownMethods == {"pil", "ghostscript", "pymupdf"}

\* the strategy compress_pdf runs for a method
AppliedStrategy(method) == IF method \in KnownMethods THEN method ELSE "pil"

\* the quality that strategy works with
AppliedQuality(method, quality_level) ==
    IF method \notin KnownMethods THEN QInt(FallbackQuality)
    ELSE IF method = "ghostscript" THEN QStr(GsPreset(quality_level))
    ELSE quality_level

\* C14: compress_pdf with an unknown method on a readable document does not
\* fail, and the method_used of every successful result names the strategy
\* that ran and the quality it ran with.
C14_MethodUsedNamesApplied ==
    /\ (/\ pc = "done"
        /\ call.op = "compress_pdf"
        /\ call.method \notin KnownMethods
        /\ call.file.exists /\ call.file.fitz_ok /\ Len(call.file.pages) > 0) =>
           result.success
    /\ CompressSucceeded =>
           result.method_used =
               [method |-> AppliedStrategy(call.method),
                quality_level |-> AppliedQuality(call.method, call.quality_level)]

GsEnded ==
    /\ pc = "done"
    /\ call.op = "compress_pdf"
    /\ LaunchesGs(call.file, call.method, call.env)

\* C15: when gs exits with a nonzero status compress_pdf returns a failure
\* whose payload holds what gs wrote on standard error.
C15_GsFailureCarriesStderr ==
    (GsEnded /\ call.env.gs.returncode # 0) =>
        /\ ~result.success
        /\ "stderr" \in DOMAIN result.error.exc
        /\ result.error.exc.stderr = call.env.gs.stderr

\* C16: gs is always run with a timeout, so that a compress_pdf waiting for
\* gs can always take a step to its return, the process ending or not.
C16_GsWaitEnds ==
    pc = "gs_running" =>
        /\ \A k \in 1..Len(invoked) : invoked[k].timeout # "none"
        /\ ENABLED Next

\* ------------------------------------------------------------- claims: Protect, Unprotect
CalledProtect ==
    /\ pc = "done"
    /\ call.op = "add_pdf_password"
    /\ Readable(call.file)

AlreadyProtected ==
    [msg |-> "PDF is already password protected. Remove existing password first."]
EmptyPassword == [msg |-> "Password cannot be empty"]

\* empty, missing or made of whitespace only
Blank(password) ==
    ~password.given \/ \A k \in 1..Len(password.chars) : password.chars[k] = " "

\* C17 as stated: add_pdf_password on an encrypted document fails with
\* AlreadyProtected whatever the password; on an unencrypted document it fails
\* with EmptyPassword when the password is blank and otherwise succeeds with an
\* encrypted output; no failure writes an output.
C17_ProtectAlreadyProtectedFirst ==
    CalledProtect =>
        /\ call.file.encrypted => result = Failure(AlreadyProtected)
        /\ (~call.file.encrypted /\ Blank(call.password)) =>
               result = Failure(EmptyPassword)
        /\ (~call.file.encrypted /\ ~Blank(call.password)) =>
               /\ result.success
               /\ Len(written) = 1
               /\ written[1].encrypted
        /\ ~result.success => written = <<>>

\* C17: add_pdf_password fails with EmptyPassword when the password is blank,
\* the document encrypted or not; with any other password it fails with
\* AlreadyProtected on an encrypted document and otherwise succeeds, the output
\* holding the pages of the input encrypted with that password; no failure
\* writes an output.
C17_ProtectEmptyPasswordFirst ==
    CalledProtect =>
        /\ Blank(call.password) => result = Failure(EmptyPassword)
        /\ (~Blank(call.password) /\ call.file.encrypted) =>
               result = Failure(AlreadyProtected)
        /\ (~Blank(call.password) /\ ~call.file.encrypted) =>
               /\ result.success
               /\ Len(written) = 1
               /\ written[1].encrypted
               /\ written[1].pages = call.file.pages
               /\ written[1].user_pw = call.password.chars
        /\ ~result.success => written = <<>>

C17_Witness ==
    /\ CalledProtect
    /\ call.file.encrypted
    /\ call.password = Str(<<" ", " ">>)
    /\ result = Failure(EmptyPassword)
    /\ written = <<>>

CalledUnprotect ==
    /\ pc = "done"
    /\ call.op = "remove_pdf_password"
    /\ Readable(call.file)

\* the password is the user password or the owner password of the document
GrantsAccess(f, password) ==
    password.chars = f.user_pw \/ password.chars = f.owner_pw

\* C18: remove_pdf_password fails with NotProtected on an unencrypted
\* document; on an encrypted one it fails with WrongPassword and writes
\* nothing unless the password is the user or the owner password, and then it
\* succeeds and writes the same pages in the same order, not encrypted.
C18_UnprotectOutcomes ==
    CalledUnprotect =>
        /\ ~call.file.encrypted =>
               result = Failure([msg |-> "PDF is not password protected"])
        /\ (call.file.encrypted /\ ~GrantsAccess(call.file, call.password)) =>
               /\ result = Failure([msg |-> "Incorrect password"])
               /\ written = <<>>
        /\ (call.file.encrypted /\ GrantsAccess(call.file, call.password)) =>
               /\ result.success
               /\ Len(written) = 1
               /\ written[1].pages = call.file.pages
               /\ ~written[1].encrypted

C18_Witness ==
    /\ CalledUnprotect
    /\ call.file.encrypted
    /\ call.file.user_pw = <<"a">>
    /\ call.file.owner_pw = <<"b">>
    /\ call.password = Str(<<"b">>)
    /\ call.decrypt_success = 2
    /\ result.success
    /\ written = <<Unencrypted(WriteFile("output", PagesOf("in", 2)))>>

\* C19: a successful remove_pdf_password with the user password and one with
\* the owner password of the same document return different results.
C19_TierObservable ==
    (/\ CalledUnprotect
     /\ result.success
     /\ call.decrypt_success = 1
     /\ call.file.owner_pw # call.file.user_pw) =>
        result # remove_pdf_password(call.file, Str(call.file.owner_pw), 2).result

\* ------------------------------------------------------------- claims: Signature
\* the pixels of luminance below 200 of the image of the call
InkPixels ==
    {xy \in (0..(call.image_data.width - 1)) \X (0..(call.image_data.height - 1)) :
        ToL(Pixel(call.image_data, xy[1], xy[2])) < 200}

CalledCrop ==
    /\ pc = "done"
    /\ call.op = "crop_signature"
    /\ call.image_data.readable

CalledProcess ==
    /\ pc = "done"
    /\ call.op = "process_signature_image"
    /\ call.image_data.readable

\* the rectangle, edges included, is the bounding box of the ink pixels grown
\* by 5 on each side and clamped to the image
IsPaddedBoundingBox(left, upper, right, lower) ==
    LET w == call.image_data.width
        h == call.image_data.height
    IN /\ \A xy \in InkPixels :
             /\ left <= Max(0, xy[1] - 5) /\ right >= Min(w - 1, xy[1] + 5)
             /\ upper <= Max(0, xy[2] - 5) /\ lower >= Min(h - 1, xy[2] + 5)
       /\ \E xy \in InkPixels : left = Max(0, xy[1] - 5)
       /\ \E xy \in InkPixels : right = Min(w - 1, xy[1] + 5)
       /\ \E xy \in InkPixels : upper = Max(0, xy[2] - 5)
       /\ \E xy \in InkPixels : lower = Min(h - 1, xy[2] + 5)

\* C20: when no pixel has luminance below 200 crop_signature returns None and
\* process_signature_image fails with 'No signature detected' without running
\* extract_signature; otherwise the crop is the bounding box of the pixels of
\* luminance below 200, grown by 5 pixels on each side, clamped to
\* [0, width-1] x [0, height-1], both edges included.
C20_CropPaddedBoundingBox ==
    /\ (CalledCrop /\ InkPixels = {}) => result = ReturnedNone
    /\ (CalledProcess /\ InkPixels = {}) =>
           /\ result = <<FALSE, [error |-> "No signature detected"], ReturnedNone>>
           /\ invoked = <<>>
    /\ (CalledCrop /\ InkPixels # {}) =>
           /\ result.returned = "png"
           /\ IsPaddedBoundingBox(result.box[1], result.box[2],
                                  result.box[3] - 1, result.box[4] - 1)
           /\ result.image.width = result.box[3] - result.box[1]
           /\ result.image.height = result.box[4] - result.box[2]
    /\ (CalledProcess /\ InkPixels # {}) =>
           /\ result[1]
           /\ Len(invoked) = 1
           /\ invoked[1].image_data = crop_signature(call.image_data).returned.image

C20_Witness ==
    /\ CalledCrop
    /\ call.image_data.width = MaxDim
    /\ call.image_data.height = MaxDim
    /\ call.image_data.marks = <<Mark(0, 6, Grey(199)), Mark(6, 6, Grey(199))>>
    /\ result.returned = "png"
    /\ result.box = <<0, 1, 12, 12>>

CalledExtract ==
    /\ pc = "done"
    /\ call.op = "extract_signature"
    /\ call.image_data.readable

\* the gray values of the image; a threshold splits the pixels as the greatest
\* of these at or below it does
GrayValues(image) == {GrayAt(image, xy) : xy \in Pixels(image)}

\* no split of the image in two non-empty classes has a greater between-class
\* variance than the split at t
IsAdaptiveThreshold(image, t) ==
    \A u \in GrayValues(image) : SplitsImage(image, u) =>
        SplitsImage(image, t) /\ ~SigmaGreater(image, u, t)

\* C21: in the image extract_signature returns every alpha is 255 or 0, it is
\* 255 exactly for the pixels whose gray value is at or below a threshold
\* that separates ink and background with the greatest between-class variance
\* (the least within-class variance) of the image, and the colour channels of
\* every pixel are those of the input.
C21_ExtractAlphaIsOtsuMask ==
    CalledExtract =>
        /\ result.returned = "png"
        /\ result.image.width = call.image_data.width
        /\ result.image.height = call.image_data.height
        /\ \A xy \in Pixels(call.image_data) :
               /\ result.image.alpha[xy] \in {0, 255}
               /\ Pixel(result.image, xy[1], xy[2]) = Pixel(call.image_data, xy[1], xy[2])
        /\ \E t \in GrayValues(call.image_data) \cup {0} :
               /\ IsAdaptiveThreshold(call.image_data, t)
               /\ \A xy \in Pixels(call.image_data) :
                      result.image.alpha[xy] = 255 <=> GrayAt(call.image_data, xy) <= t

C21_Witness ==
    /\ CalledExtract
    /\ call.image_data = StripImage(<<Blue, White, Grey(200), Grey(100)>>)
    /\ call.thresh = 100
    /\ result.image.alpha =
           [xy \in Pixels(call.image_data) |-> IF xy[1] \in {0, 3} THEN 255 ELSE 0]

\* ------------------------------------------------------------- claims: Analysis
Analyzed ==
    /\ pc = "done"
    /\ call.op = "analyze_pdf_content"
    /\ result.success

\* the images of the document of the call, as <<page, index>>
AllImages ==
    UNION {{<<k, j>> : j \in 1..Len(call.file.images[k])} :
              k \in 1..Len(call.file.images)}

RECURSIVE BytesOf(_)
BytesOf(S) ==
    IF S = {} THEN 0
    ELSE LET kj == CHOOSE x \in S : TRUE
         IN call.file.images[kj[1]][kj[2]].bytes + BytesOf(S \ {kj})

\* C22: with L the number of images of more than 500,000 bytes, T the number
\* of images and B the sum of their bytes, compression_potential is High iff
\* L > 3 or (T > 10 and B > 5,000,000), otherwise Medium iff L > 0 or (T > 5
\* and B > 2,000,000), otherwise Low.
C22_CompressionPotential ==
    Analyzed =>
        LET L == Cardinality({kj \in AllImages :
                                 call.file.images[kj[1]][kj[2]].bytes > 500000})
            T == Cardinality(AllImages)
            B == BytesOf(AllImages)
            high == L > 3 \/ (T > 10 /\ B > 5000000)
            medium == L > 0 \/ (T > 5 /\ B > 2000000)
        IN /\ result.compression_potential = "High" <=> high
           /\ result.compression_potential = "Medium" <=> (~high /\ medium)
           /\ result.compression_potential = "Low" <=> (~high /\ ~medium)

C22_Witness ==
    /\ Analyzed
    /\ result.large_images = 0
    /\ result.total_images = 11
    /\ result.avg_image_size = [sum |-> 5000000, over |-> 11]
    /\ result.compression_potential = "Medium"

\* ------------------------------------------------------------- claims: Sign
\* a call of sign_pdf_document, directly or by the endpoint, with a document and
\* an image that can be read and a rectangle that is not empty
SignCalled ==
    /\ pc = "done"
    /\ \/ /\ call.op = "sign_pdf_document"
          /\ call.file.exists /\ call.file.fitz_ok
          /\ call.sig.image_ok
          /\ call.coords.width > 0 /\ call.coords.height > 0
       \/ /\ call.op = "sign_pdf_api"
          /\ call.data.pdf_filename /\ call.data.signature_filename
          /\ call.data.pdf.exists /\ call.data.sig.exists
          /\ call.data.page.num

SignedFile == IF call.op = "sign_pdf_api" THEN call.data.pdf ELSE call.file
SignedPageNum == IF call.op = "sign_pdf_api" THEN call.data.page.val ELSE call.page_num

\* C23: sign_pdf_document with a page index outside [0, pageCount), a negative
\* one included, fails with an index error and writes no output; with an index
\* inside the range the image is placed on that page only and the output has
\* the pages of the input.
C23_SignPageIndexInRange ==
    SignCalled =>
        IF SignedPageNum \in 0..(Len(SignedFile.pages) - 1)
        THEN /\ result[1]
             /\ Len(written) = 1
             /\ written[1].pages = SignedFile.pages
             /\ {sg.at : sg \in written[1].signatures} = {SignedPageNum + 1}
        ELSE /\ ~result[1]
             /\ result[2].error.exc = [type |-> "IndexError: page not in document"]
             /\ written = <<>>

\* ------------------------------------------------------------- claims: error policy
CoreOperations ==
    {"remove_pdf_pages", "insert_pdf_at_position", "reorder_pages", "split_pdf",
     "merge_pdfs", "compress_pdf", "add_pdf_password", "remove_pdf_password",
     "sign_pdf_document", "process_signature_image"}

Endpoints == {"delete_pdf_pages_api", "insert_pdf_api", "merge_pdfs_api", "sign_pdf_api"}

\* the exceptions that leave a function of the model
Exceptions ==
    {[type |-> t] : t \in {"UnidentifiedImageError", "FileDataError", "TypeError",
                           "ValueError: cannot save with zero pages"}}

\* C24: no call of a core operation or of an endpoint ends with an exception
\* that leaves it: each returns a result, or answers with a JSON body.
C24_NoUncaughtException ==
    (pc = "done" /\ call.op \in CoreOperations \cup Endpoints) =>
        /\ \A exc \in Exceptions : result # Raised(exc)
        /\ "uncaught" \notin DOMAIN response.body

\* ------------------------------------------------------------- claims: Split default, naming
CalledSplitDefault ==
    /\ pc = "done"
    /\ call.op = "split_pdf"
    /\ validate_pdf(call.file)[1]
    /\ Len(call.page_ranges) = 0

\* C25: split_pdf without ranges on a document of N pages writes N outputs,
\* the i-th holding page i only, reported with page_range [i, i] and
\* page_count 1, and split_count = N.
C25_SplitDefaultOnePagePerOutput ==
    CalledSplitDefault =>
        LET N == Len(call.file.pages)
        IN /\ result.success
           /\ result.split_count = N
           /\ Len(written) = N
           /\ Len(result.output_files) = N
           /\ \A i \in 1..N :
                  /\ written[i].pages = <<call.file.pages[i]>>
                  /\ result.output_files[i].page_range = <<i, i>>
                  /\ result.output_files[i].page_count = 1
                  /\ result.output_files[i].filename = written[i].filename

C25_Witness ==
    /\ CalledSplitDefault
    /\ Len(call.file.pages) = 3
    /\ result.split_count = 3
    /\ written[3].pages = <<<<"in", 3>>>>

\* C29: the files one call of split_pdf writes have pairwise distinct names,
\* the index in the name being the position of the range in the request, so
\* that no output of the call overwrites another.
C29_SplitNamesDistinct ==
    (pc = "done" /\ call.op = "split_pdf") =>
        /\ \A i, j \in 1..Len(written) :
               i # j => written[i].filename # written[j].filename
        /\ Len(call.page_ranges) > 0 =>
               \A j \in 1..Len(written) :
                   LET k == written[j].filename.index
                   IN /\ k \in 1..Len(call.page_ranges)
                      /\ call.page_ranges[k] =
                             <<written[j].filename.start, written[j].filename.end>>

C29_Witness ==
    /\ pc = "done"
    /\ call.op = "split_pdf"
    /\ call.page_ranges = <<<<1, 2>>, <<1, 2>>>>
    /\ Len(written) = 2
    /\ written[1].filename = [index |-> 1, start |-> 1, end |-> 2]
    /\ written[2].filename = [index |-> 2, start |-> 1, end |-> 2]

\* ------------------------------------------------------------- claims: Delete consistency, chaining
\* C26: a successful remove_pdf_pages reports as new_page_count the number of
\* pages it wrote, and total_pages - new_page_count is the number of
\* distinct pages removed, also when a page number is given more than once.
C26_DeleteCountsConsistent ==
    (pc = "done" /\ call.op = "remove_pdf_pages" /\ result.success) =>
        /\ Len(written) = 1
        /\ result.new_page_count = Len(written[1].pages)
        /\ result.total_pages - result.new_page_count
               = Cardinality(Range(call.pages_to_remove))

\* the operation of the call was given valid documents
GivenValidDocuments ==
    CASE call.op \in {"remove_pdf_pages", "reorder_pages", "split_pdf"} ->
             validate_pdf(call.file)[1]
      [] call.op = "insert_pdf_at_position" ->
             validate_pdf(call.base)[1] /\ validate_pdf(call.ins)[1]
      [] call.op = "merge_pdfs" ->
             \A k \in 1..Len(call.input_paths) : validate_pdf(call.input_paths[k])[1]

\* C27: every document a successful Delete, Insert, Reorder, Split or Merge
\* writes from valid documents has a page or more and is accepted by
\* validate_pdf, so that it can be given to a next operation.
C27_OutputsAreValidDocuments ==
    (/\ pc = "done"
     /\ call.op \in {"remove_pdf_pages", "insert_pdf_at_position", "reorder_pages",
                     "split_pdf", "merge_pdfs"}
     /\ GivenValidDocuments
     /\ result.success) =>
        \A k \in 1..Len(written) :
            /\ Len(written[k].pages) >= 1
            /\ validate_pdf(AsInput(written[k]))[1]

\* ------------------------------------------------------------- C28
PasswordOps == {"add_pdf_password", "remove_pdf_password"}

\* a call in a sequence of password calls that started on an unencrypted document
InPasswordSequence ==
    /\ pc = "done"
    /\ call.op \in PasswordOps
    /\ call.nth > 1 \/ ~call.file.encrypted

\* C28: in a sequence of add_pdf_password and remove_pdf_password calls that
\* starts on an unencrypted document, each call made on the output of the last
\* one that succeeded: add_pdf_password succeeds only on an unencrypted document
\* and writes an encrypted one; remove_pdf_password succeeds only on an encrypted
\* document with a password of it and writes an unencrypted one; the last
\* successful call before a successful add_pdf_password is never an
\* add_pdf_password; and remove_pdf_password with the password of the last
\* successful add_pdf_password succeeds and writes the pages that call was given
C28_ProtectUnprotectSequences ==
    InPasswordSequence =>
        /\ (call.op = "add_pdf_password" /\ result.success) =>
              /\ ~call.file.encrypted
              /\ written[1].encrypted
              /\ call.last_ok.op # "add_pdf_password"
        /\ (call.op = "remove_pdf_password" /\ result.success) =>
              /\ call.file.encrypted
              /\ GrantsAccess(call.file, call.password)
              /\ ~written[1].encrypted
        /\ (/\ call.op = "remove_pdf_password"
            /\ call.last_ok.op = "add_pdf_password"
            /\ call.password = call.last_ok.password) =>
              /\ result.success
              /\ written[1].pages = call.last_ok.file.pages

\* a document of some pages was protected and then unprotected with the same
\* password, and protected again after that
C28_Witness ==
    /\ InPasswordSequence
    /\ call.nth = MaxChain
    /\ call.op = "add_pdf_password"
    /\ result.success
    /\ call.last_ok.op = "remove_pdf_password"
    /\ call.last_ok.file.encrypted
    /\ call.last_ok.password.chars = call.last_ok.file.user_pw
    /\ Len(written[1].pages) >= 2

\* ------------------------------------------------------------- C30
\* remove_pdf_pages was called on the output of an insert_pdf_at_position of a
\* document of one page or more into a base document of one page or more, with
\* the page numbers of the inserted pages
RemovedTheInsertedPages ==
    /\ pc = "done"
    /\ call.op = "remove_pdf_pages"
    /\ "after" \in DOMAIN call
    /\ Len(call.after.base.pages) >= 1
    /\ Len(call.after.ins.pages) >= 1
    /\ call.pages_to_remove =
          [k \in 1..Len(call.after.ins.pages) |-> call.after.position + k]

MergedTwo ==
    /\ pc = "done"
    /\ call.op = "merge_pdfs"
    /\ Len(call.input_paths) = 2

InsertAtEnd ==
    insert_pdf_at_position(call.input_paths[1], call.input_paths[2],
                           Len(call.input_paths[1].pages))

\* C30: removing the inserted pages from the output of insert_pdf_at_position
\* succeeds and writes the pages of the base document, when the base document
\* has a page; merge_pdfs of two documents succeeds when insert_pdf_at_position
\* of the second after the last page of the first does, and writes the same pages
C30_InsertDeleteRoundTrip ==
    /\ RemovedTheInsertedPages =>
          /\ result.success
          /\ written[1].pages = call.after.base.pages
    /\ MergedTwo =>
          /\ result.success = InsertAtEnd.result.success
          /\ result.success => written[1].pages = InsertAtEnd.written[1].pages

\* two pages were inserted in the middle of a document and then removed
C30_Witness ==
    /\ RemovedTheInsertedPages
    /\ Len(call.after.ins.pages) >= 2
    /\ call.after.position >= 1
    /\ call.after.position < Len(call.after.base.pages)
    /\ result.success
    /\ written[1].pages = call.after.base.pages

====
